---- MODULE Spec2Model ----
(***************************************************************************)
(* A model of the cost-savings analysis engine of the AWS cost dashboard   *)
(* (src/aws_services/cost_savings_ai.py): the statistics helpers, the ten  *)
(* analysis modules and CostSavingsAI.generate_opportunities, which        *)
(* fetches six cost series, runs the analysers, de-duplicates their        *)
(* opportunities by id and sorts them by estimated savings.                *)
(*                                                                         *)
(* Numbers.  Costs are whole dollars (Python floats in the code; the whole *)
(* dollar amounts are the inputs the model draws).  estimated_savings is   *)
(* held in cents, because the code rounds it to 2 decimals.  A fraction is *)
(* a pair <<num, den>> with den > 0 and is compared by cross               *)
(* multiplication, so every threshold test of the code is decided exactly. *)
(* A z-score is a record [num, rad] standing for num / sqrt(rad).          *)
(*                                                                         *)
(* Text.  A Python str is a sequence of one-character strings, so that     *)
(* str.replace, slicing, lower() and the `in` test are computed.           *)
(***************************************************************************)
EXTENDS Integers, Sequences, FiniteSets, TLC

VARIABLES
    provider,       \* what each Cost Explorer query answers for this account
    failing,        \* the calls that raise: queries, or "client" (session / client build)
    faulty,         \* the analysers that raise on this data
    now,            \* datetime.utcnow().date(), as a proleptic ordinal
    pc,             \* position inside generate_opportunities
    daily,          \* local: daily
    services,       \* local: services
    regions,        \* local: regions
    usage_types,    \* local: usage_types
    monthly,        \* local: monthly
    daily_svc,      \* local: daily_svc
    opportunities,  \* local: opportunities
    calls,          \* the provider calls issued by this invocation
    exc,            \* the exception in flight ("" when none)
    result,         \* what the last invocation returned to its caller
    requests,       \* invocations started so far
    lastResult,     \* what the invocation before the current one returned
    frames,         \* concurrent requests: each invocation's position, locals, return value
    heap,           \* the opportunity lists the concurrent invocations have created
    fn,             \* a helper or analyser called directly: which one ("" before the call)
    arg,            \* its argument
    ret,            \* what it returned
    store,          \* data/accounts.json: the list under "accounts"
    call,           \* the last call of the account manager, one call after another
    procs,          \* the request each gunicorn worker is serving
    nextId          \* the uuid the next registered account draws

vars ==
    << provider, failing, faulty, now, pc, daily, services, regions, usage_types,
       monthly, daily_svc, opportunities, calls, exc, result, requests, lastResult,
       frames, heap, fn, arg, ret, store, call, procs, nextId >>

-----------------------------------------------------------------------------
(* Arithmetic helpers *)

RECURSIVE SumSeq(_)
SumSeq(s) ==
    IF s = << >> THEN 0 ELSE Head(s) + SumSeq(Tail(s))

\* [f(x) for x in s]
Map(s, f(_)) ==
    [i \in 1..Len(s) |-> f(s[i])]

\* s[:n]
Take(s, n) ==
    SubSeq(s, 1, IF n < Len(s) THEN n ELSE Len(s))

\* s[-n:]
LastN(s, n) ==
    SubSeq(s, (IF Len(s) > n THEN Len(s) - n ELSE 0) + 1, Len(s))

\* round(num / den) for den > 0: Python rounds an exact half to the even neighbour
RoundHalfEven(num, den) ==
    LET q == num \div den
        r == num % den
    IN  IF 2 * r < den THEN q
        ELSE IF 2 * r > den THEN q + 1
        ELSE IF q % 2 = 0 THEN q ELSE q + 1

\* round(100 * num / den) for 0 <= num, den > 0, by long division (no large product)
RoundPercent(num, den) ==
    LET w  == num \div den
        r0 == num % den
        d1 == (r0 * 10) \div den
        r1 == (r0 * 10) % den
        d2 == (r1 * 10) \div den
        r2 == (r1 * 10) % den
        q  == w * 100 + d1 * 10 + d2
    IN  IF 2 * r2 < den THEN q
        ELSE IF 2 * r2 > den THEN q + 1
        ELSE IF q % 2 = 0 THEN q ELSE q + 1

\* a * k < x for a >= 0, k > 0, without forming a * k
MulLess(a, k, x) ==
    x >= 1 /\ a <= (x - 1) \div k

\* fractions <<num, den>>, den > 0
FracLess(a, b) ==
    a[1] * b[2] < b[1] * a[2]

FracGreater(a, b) ==
    FracLess(b, a)

-----------------------------------------------------------------------------
(* Text helpers: Python str as a sequence of characters *)

UpperCase ==
    <<"A", "B", "C", "D", "E", "F", "G", "H", "I", "J", "K", "L", "M", "N", "O", "P", "Q", "R", "S", "T", "U", "V", "W", "X", "Y", "Z">>

LowerCase ==
    <<"a", "b", "c", "d", "e", "f", "g", "h", "i", "j", "k", "l", "m", "n", "o", "p", "q", "r", "s", "t", "u", "v", "w", "x", "y", "z">>

\* the lower-case letter of each upper-case letter
LowerOf ==
    [c \in { UpperCase[i] : i \in 1..Len(UpperCase) } |->
        LowerCase[CHOOSE i \in 1..Len(UpperCase) : UpperCase[i] = c]]

LowerChar(c) ==
    IF c \in DOMAIN LowerOf THEN LowerOf[c] ELSE c

\* s.lower()
Lower(s) ==
    [i \in 1..Len(s) |-> LowerChar(s[i])]

StartsWith(s, p) ==
    Len(p) <= Len(s) /\ SubSeq(s, 1, Len(p)) = p

\* kw in s
Contains(s, kw) ==
    \E i \in 0..(Len(s) - Len(kw)) : \A j \in 1..Len(kw) : s[i + j] = kw[j]

\* s.replace(old, new), old non-empty: left to right, non-overlapping
RECURSIVE Replace(_, _, _)
Replace(s, old, new) ==
    IF s = << >> THEN << >>
    ELSE IF StartsWith(s, old)
         THEN new \o Replace(SubSeq(s, Len(old) + 1, Len(s)), old, new)
         ELSE <<Head(s)>> \o Replace(Tail(s), old, new)

-----------------------------------------------------------------------------
(* Helper math utilities *)

\* variant: r_sq without the test of ss_yy; a denominator of 0 is the division error
linear_regression_unguarded(ys) ==
    LET n   == Len(ys)
        Sx  == SumSeq([i \in 1..n |-> i - 1])
        Sy  == SumSeq(ys)
        nxy == n * SumSeq([i \in 1..n |-> (i - 1) * ys[i]]) - Sx * Sy
        nxx == n * SumSeq([i \in 1..n |-> (i - 1) * (i - 1)]) - Sx * Sx
        nyy == n * SumSeq([i \in 1..n |-> ys[i] * ys[i]]) - Sy * Sy
    IN  IF n < 3 THEN [slope |-> <<0, 1>>, r_sq |-> <<0, 1>>]
        ELSE IF nxx = 0 THEN [slope |-> <<0, 1>>, r_sq |-> <<0, 1>>]
        ELSE [slope |-> <<nxy, nxx>>, r_sq |-> <<nxy * nxy, nxx * nyy>>]

\* variant: r_sq = ss_xy / (ss_xx * ss_yy), the square forgotten
linear_regression_unsquared(ys) ==
    LET n   == Len(ys)
        Sx  == SumSeq([i \in 1..n |-> i - 1])
        Sy  == SumSeq(ys)
        nxy == n * SumSeq([i \in 1..n |-> (i - 1) * ys[i]]) - Sx * Sy
        nxx == n * SumSeq([i \in 1..n |-> (i - 1) * (i - 1)]) - Sx * Sx
        nyy == n * SumSeq([i \in 1..n |-> ys[i] * ys[i]]) - Sy * Sy
    IN  IF n < 3 THEN [slope |-> <<0, 1>>, r_sq |-> <<0, 1>>]
        ELSE IF nxx = 0 THEN [slope |-> <<0, 1>>, r_sq |-> <<0, 1>>]
        ELSE [slope |-> <<nxy, nxx>>,
              r_sq  |-> IF nyy # 0 THEN <<n * nxy, nxx * nyy>> ELSE <<0, 1>>]

\* _linear_regression(ys): OLS on x = 0..n-1.  With Sx, Sy the sums, the code's
\* ss_xy, ss_xx, ss_yy are nxy/n, nxx/n, nyy/n below, so slope = nxy/nxx and
\* r_sq = nxy^2 / (nxx * nyy).
linear_regression(ys) ==
    LET n   == Len(ys)
        Sx  == SumSeq([i \in 1..n |-> i - 1])
        Sy  == SumSeq(ys)
        nxy == n * SumSeq([i \in 1..n |-> (i - 1) * ys[i]]) - Sx * Sy
        nxx == n * SumSeq([i \in 1..n |-> (i - 1) * (i - 1)]) - Sx * Sx
        nyy == n * SumSeq([i \in 1..n |-> ys[i] * ys[i]]) - Sy * Sy
    IN  IF n < 3 THEN [slope |-> <<0, 1>>, r_sq |-> <<0, 1>>]
        ELSE IF nxx = 0 THEN [slope |-> <<0, 1>>, r_sq |-> <<0, 1>>]
        ELSE [slope |-> <<nxy, nxx>>,
              r_sq  |-> IF nyy # 0 THEN <<nxy * nxy, nxx * nyy>> ELSE <<0, 1>>]

\* _z_scores(values): (v - mean) / std with the population std, std 0 replaced by 1.
\* With S the sum and W = n * sum(v^2) - S^2, std = sqrt(W) / n and the z-score of v
\* is (n*v - S) / sqrt(W).
z_scores(values) ==
    LET n == Len(values)
        S == SumSeq(values)
        W == n * SumSeq([i \in 1..n |-> values[i] * values[i]]) - S * S
    IN  IF n < 3 THEN [i \in 1..n |-> [num |-> 0, rad |-> 1]]
        ELSE IF W = 0 THEN [i \in 1..n |-> [num |-> (n * values[i] - S) \div n, rad |-> 1]]
        ELSE [i \in 1..n |-> [num |-> n * values[i] - S, rad |-> W]]

\* z > k for an integer k >= 0: num / sqrt(rad) > k
ZAbove(z, k) ==
    z.num > 0 /\ z.num * z.num > k * k * z.rad

\* a < b for two z-scores of one series (same rad), or of any two
ZLess(a, b) ==
    IF a.rad = b.rad THEN a.num < b.num
    ELSE IF a.num <= 0 /\ b.num >= 0 THEN a.num < b.num
    ELSE IF a.num >= 0 /\ b.num <= 0 THEN FALSE
    ELSE IF a.num > 0 THEN a.num * a.num * b.rad < b.num * b.num * a.rad
    ELSE a.num * a.num * b.rad > b.num * b.num * a.rad

\* max(zs), zs non-empty
ZMax(zs) ==
    zs[CHOOSE i \in 1..Len(zs) : \A j \in 1..Len(zs) : ~ZLess(zs[i], zs[j])]

\* zs.index(m): the first position of m
IndexOf(zs, m) ==
    CHOOSE i \in 1..Len(zs) : zs[i] = m /\ \A j \in 1..(i - 1) : zs[j] # m

\* variant: the shares squared as fractions, not as percentages
hhi_fractions(shares) ==
    LET sum   == SumSeq(shares)
        total == IF sum # 0 THEN sum ELSE 1
    IN  <<SumSeq([i \in 1..Len(shares) |-> shares[i] * shares[i]]), total * total>>

\* _hhi(shares): sum(((s / total) * 100) ** 2), total = sum(shares) or 1
hhi(shares) ==
    LET sum   == SumSeq(shares)
        total == IF sum # 0 THEN sum ELSE 1
    IN  <<10000 * SumSeq([i \in 1..Len(shares) |-> shares[i] * shares[i]]), total * total>>

-----------------------------------------------------------------------------
(* Opportunities *)

\* An opportunity dict: id, category, priority, estimated_savings (cents), confidence.
\* An id is <<fixed part, formatted part>>: two ids are equal as Python strings
\* exactly when the pairs are equal, since no fixed part is a prefix of another.
Opp(id, category, priority, savings, confidence) ==
    [id |-> id, category |-> category, priority |-> priority,
     estimated_savings |-> savings, confidence |-> confidence]

RECURSIVE Concat(_)
Concat(ss) ==
    IF ss = << >> THEN << >> ELSE Head(ss) \o Concat(Tail(ss))

Costs(items) ==
    [i \in 1..Len(items) |-> items[i].cost]

PrefixAmazon ==
    <<"A", "m", "a", "z", "o", "n", " ">>

PrefixAWS ==
    <<"A", "W", "S", " ">>

\* svc.replace("Amazon ", "").replace("AWS ", "")
SvcShort(svc) ==
    Replace(Replace(svc, PrefixAmazon, << >>), PrefixAWS, << >>)

\* svc_short[:15].replace(' ', '-').lower()
SvcSlug(svc) ==
    Lower(Replace(Take(SvcShort(svc), 15), <<" ">>, <<"-">>))

\* daily_svc["data"].get(svc, [])
DataGet(dsvc, svc) ==
    IF svc \in DOMAIN dsvc.data THEN dsvc.data[svc] ELSE << >>

-----------------------------------------------------------------------------
(* Analysis modules *)

\* variant: the week-over-week check as the alternative of the regression branch
analyse_cost_trend_either(ds) ==
    LET costs  == Costs(ds)
        n      == Len(costs)
        reg    == linear_regression(costs)
        slope  == reg.slope
        r_sq   == reg.r_sq
        Sy     == SumSeq(costs)
        \* pct_increase = (slope * 30 / avg) * 100, avg = Sy / n
        pct    == <<3000 * n * slope[1], slope[2] * Sy>>
        trend  ==
            IF slope[1] > 0 /\ FracGreater(r_sq, <<3, 10>>) /\ Sy > 0
               /\ FracGreater(pct, <<5, 1>>)
            THEN << Opp(<<"trend-001", << >> >>, "trend",
                        IF FracGreater(pct, <<20, 1>>) THEN "critical" ELSE "high",
                        RoundHalfEven(1200 * slope[1], slope[2]),
                        RoundPercent(r_sq[1], r_sq[2])) >>
            ELSE << >>
        recent == SumSeq(LastN(costs, 7))
        prior  == SumSeq(SubSeq(costs, n - 13, n - 7))
        \* wow_pct = ((recent - prior) / prior) * 100
        wow    ==
            IF n >= 14 /\ prior > 0 /\ 100 * (recent - prior) > 15 * prior
            THEN << Opp(<<"trend-002", << >> >>, "anomaly",
                        IF 100 * (recent - prior) > 40 * prior THEN "critical" ELSE "high",
                        RoundHalfEven(100 * (recent - prior), 2),
                        85) >>
            ELSE << >>
    IN  IF n < 14 THEN << >> ELSE IF trend # << >> THEN trend ELSE wow

\* variant: the regression branch without the test of r_sq
analyse_cost_trend_any_fit(ds) ==
    LET costs  == Costs(ds)
        n      == Len(costs)
        reg    == linear_regression(costs)
        slope  == reg.slope
        r_sq   == reg.r_sq
        Sy     == SumSeq(costs)
        \* pct_increase = (slope * 30 / avg) * 100, avg = Sy / n
        pct    == <<3000 * n * slope[1], slope[2] * Sy>>
        trend  ==
            IF slope[1] > 0 /\ Sy > 0
               /\ FracGreater(pct, <<5, 1>>)
            THEN << Opp(<<"trend-001", << >> >>, "trend",
                        IF FracGreater(pct, <<20, 1>>) THEN "critical" ELSE "high",
                        RoundHalfEven(1200 * slope[1], slope[2]),
                        RoundPercent(r_sq[1], r_sq[2])) >>
            ELSE << >>
        recent == SumSeq(LastN(costs, 7))
        prior  == SumSeq(SubSeq(costs, n - 13, n - 7))
        \* wow_pct = ((recent - prior) / prior) * 100
        wow    ==
            IF n >= 14 /\ prior > 0 /\ 100 * (recent - prior) > 15 * prior
            THEN << Opp(<<"trend-002", << >> >>, "anomaly",
                        IF 100 * (recent - prior) > 40 * prior THEN "critical" ELSE "high",
                        RoundHalfEven(100 * (recent - prior), 2),
                        85) >>
            ELSE << >>
    IN  IF n < 14 THEN << >> ELSE trend \o wow

\* _analyse_cost_trend
analyse_cost_trend(ds) ==
    LET costs  == Costs(ds)
        n      == Len(costs)
        reg    == linear_regression(costs)
        slope  == reg.slope
        r_sq   == reg.r_sq
        Sy     == SumSeq(costs)
        \* pct_increase = (slope * 30 / avg) * 100, avg = Sy / n
        pct    == <<3000 * n * slope[1], slope[2] * Sy>>
        trend  ==
            IF slope[1] > 0 /\ FracGreater(r_sq, <<3, 10>>) /\ Sy > 0
               /\ FracGreater(pct, <<5, 1>>)
            THEN << Opp(<<"trend-001", << >> >>, "trend",
                        IF FracGreater(pct, <<20, 1>>) THEN "critical" ELSE "high",
                        RoundHalfEven(1200 * slope[1], slope[2]),
                        RoundPercent(r_sq[1], r_sq[2])) >>
            ELSE << >>
        recent == SumSeq(LastN(costs, 7))
        prior  == SumSeq(SubSeq(costs, n - 13, n - 7))
        \* wow_pct = ((recent - prior) / prior) * 100
        wow    ==
            IF n >= 14 /\ prior > 0 /\ 100 * (recent - prior) > 15 * prior
            THEN << Opp(<<"trend-002", << >> >>, "anomaly",
                        IF 100 * (recent - prior) > 40 * prior THEN "critical" ELSE "high",
                        RoundHalfEven(100 * (recent - prior), 2),
                        85) >>
            ELSE << >>
    IN  IF n < 14 THEN << >> ELSE trend \o wow

\* variant: concentrated from an HHI of 2500 on
analyse_service_concentration_from_2500(svcs) ==
    LET Positive(c) == c > 0
        costs == SelectSeq(Costs(svcs), Positive)
        sum   == SumSeq(costs)
        total == IF sum # 0 THEN sum ELSE 1
        h     == hhi(costs)
        top   == svcs[1]
    IN  IF svcs = << >> THEN << >>
        ELSE IF ~FracLess(h, <<2500, 1>>) /\ Len(svcs) >= 2
        THEN << Opp(<<"conc-001", << >> >>, "optimization",
                    \* share = (top["cost"] / total) * 100 > 60
                    IF 100 * top.cost > 60 * total THEN "high" ELSE "medium",
                    15 * top.cost,
                    80) >>
        ELSE << >>

\* _analyse_service_concentration
analyse_service_concentration(svcs) ==
    LET Positive(c) == c > 0
        costs == SelectSeq(Costs(svcs), Positive)
        sum   == SumSeq(costs)
        total == IF sum # 0 THEN sum ELSE 1
        h     == hhi(costs)
        top   == svcs[1]
    IN  IF svcs = << >> THEN << >>
        ELSE IF FracGreater(h, <<2500, 1>>) /\ Len(svcs) >= 2
        THEN << Opp(<<"conc-001", << >> >>, "optimization",
                    \* share = (top["cost"] / total) * 100 > 60
                    IF 100 * top.cost > 60 * total THEN "high" ELSE "medium",
                    15 * top.cost,
                    80) >>
        ELSE << >>

\* isqrt by bisection: the r in lo..hi with r*r <= t < (r+1)*(r+1)
RECURSIVE ISqrtIn(_, _, _)
ISqrtIn(t, lo, hi) ==
    IF lo = hi THEN lo
    ELSE LET mid == (lo + hi + 1) \div 2
         IN  IF mid * mid <= t THEN ISqrtIn(t, mid, hi) ELSE ISqrtIn(t, lo, mid - 1)

ISqrt(t) ==
    ISqrtIn(t, 0, IF t < 46340 THEN t ELSE 46340)

\* round(50 + z * 15) for z = num / sqrt(rad) > 0.  With x = 15 * z, floor(x + 1/2) is
\* the largest m with (2m - 1)^2 * rad <= 900 * num^2; an exact half goes to the
\* even neighbour.
SpikeScore(z) ==
    LET t   == (900 * z.num * z.num) \div z.rad
        m   == (ISqrt(t) + 1) \div 2
        tie == (2 * m - 1) * (2 * m - 1) * z.rad = 900 * z.num * z.num
    IN  50 + (IF tie /\ m % 2 = 1 THEN m - 1 ELSE m)

\* variant: the score without the min(95, ...) clamp
SpikeConfidenceUnclamped(z) ==
    SpikeScore(z)

\* min(95, round(50 + recent_max_z * 15))
SpikeConfidence(z) ==
    IF SpikeScore(z) < 95 THEN SpikeScore(z) ELSE 95

\* the body of the loop of _analyse_service_spikes for one service
SpikeOf(dsvc, svc) ==
    LET costs == DataGet(dsvc, svc)
        n     == Len(costs)
        zs    == z_scores(costs)
        last7 == LastN(zs, 7)
        recent_max_z == ZMax(last7)
        peak_day_idx == n - 7 + IndexOf(last7, recent_max_z)
        peak_cost    == costs[peak_day_idx]
        \* excess = peak_cost - avg_cost = nexcess / n
        nexcess      == n * peak_cost - SumSeq(costs)
    IN  IF n < 7 THEN << >>
        ELSE IF ZAbove(recent_max_z, 2) /\ 2 * nexcess > n
        THEN << Opp(<<"spike-", SvcSlug(svc)>>, "anomaly",
                    IF ZAbove(recent_max_z, 3) THEN "high" ELSE "medium",
                    RoundHalfEven(700 * nexcess, n),
                    SpikeConfidence(recent_max_z)) >>
        ELSE << >>

\* _analyse_service_spikes
analyse_service_spikes(dsvc) ==
    Concat([i \in 1..Len(dsvc.services) |-> SpikeOf(dsvc, dsvc.services[i])])

\* variant: the loop over every region, the first one included
analyse_region_waste_every(rs) ==
    LET sum   == SumSeq(Costs(rs))
        total == IF sum # 0 THEN sum ELSE 1
        \* share = (r["cost"] / total) * 100
        One(r) ==
            IF total < 100 * r.cost /\ 100 * r.cost < 15 * total /\ r.cost > 5
            THEN << Opp(<<"region-", Take(r.region, 20)>>, "infrastructure", "medium",
                        30 * r.cost, 60) >>
            ELSE << >>
    IN  IF Len(rs) < 2 THEN << >>
        ELSE Concat([i \in 1..Len(rs) |-> One(rs[i])])

\* _analyse_region_waste
analyse_region_waste(rs) ==
    LET sum   == SumSeq(Costs(rs))
        total == IF sum # 0 THEN sum ELSE 1
        \* share = (r["cost"] / total) * 100
        One(r) ==
            IF total < 100 * r.cost /\ 100 * r.cost < 15 * total /\ r.cost > 5
            THEN << Opp(<<"region-", Take(r.region, 20)>>, "infrastructure", "medium",
                        30 * r.cost, 60) >>
            ELSE << >>
    IN  IF Len(rs) < 2 THEN << >>
        ELSE Concat([i \in 1..(Len(rs) - 1) |-> One(rs[i + 1])])

DataTransferKeywords ==
    << <<"d", "a", "t", "a", "t", "r", "a", "n", "s", "f", "e", "r">>,
       <<"d", "a", "t", "a", "-", "t", "r", "a", "n", "s", "f", "e", "r">>,
       <<"c", "l", "o", "u", "d", "f", "r", "o", "n", "t">>,
       <<"n", "a", "t", "-", "g", "a", "t", "e", "w", "a", "y">>,
       <<"b", "y", "t", "e", "s">> >>

StorageKeywords ==
    << <<"s", "t", "o", "r", "a", "g", "e">>,
       <<"e", "b", "s">>,
       <<"s", "3">>,
       <<"s", "n", "a", "p", "s", "h", "o", "t">>,
       <<"b", "a", "c", "k", "u", "p">> >>

\* any(kw in ut for kw in kws), ut = u["usage_type"].lower()
MatchesAny(usage_type, kws) ==
    LET ut == Lower(usage_type)
    IN  \E k \in 1..Len(kws) : Contains(ut, kws[k])

\* _analyse_data_transfer
analyse_data_transfer(uts) ==
    LET IsDt(u) == MatchesAny(u.usage_type, DataTransferKeywords)
        dt_cost == SumSeq(Costs(SelectSeq(uts, IsDt)))
    IN  IF dt_cost > 10
        THEN << Opp(<<"dt-001", << >> >>, "networking",
                    IF dt_cost > 100 THEN "high" ELSE "medium",
                    25 * dt_cost, 70) >>
        ELSE << >>

\* the body of the loop of _analyse_idle_services for one service
IdleOf(svc_item, dsvc) ==
    LET cost == svc_item.cost
        ds   == DataGet(dsvc, svc_item.service)
        L    == Len(ds)
        \* std^2 = sum((d - cost / L)^2) / L = A / L^3; avg_daily = cost / 30
        A    == SumSeq([i \in 1..L |-> (L * ds[i] - cost) * (L * ds[i] - cost)])
    IN  IF 2 * cost > 1 /\ cost < 50 /\ L >= 7
        THEN IF MulLess(A, 3600, L * L * L * cost * cost) /\ 100 * cost > 30
             THEN << Opp(<<"idle-", SvcSlug(svc_item.service)>>, "waste",
                         IF cost > 15 THEN "medium" ELSE "low",
                         60 * cost, 55) >>
             ELSE << >>
        ELSE << >>

\* variant: every qualifying service, without the cap
analyse_idle_services_uncapped(svcs, dsvc) ==
    Concat([i \in 1..Len(svcs) |-> IdleOf(svcs[i], dsvc)])

\* _analyse_idle_services
analyse_idle_services(svcs, dsvc) ==
    Take(Concat([i \in 1..Len(svcs) |-> IdleOf(svcs[i], dsvc)]), 5)

\* _analyse_monthly_growth
analyse_monthly_growth(ms) ==
    LET costs == Costs(ms)
        n     == Len(costs)
        reg   == linear_regression(costs)
        slope == reg.slope
        r_sq  == reg.r_sq
        Sy    == SumSeq(costs)
        \* growth_pct = (slope / avg) * 100 if avg else 0
        growth_pct == IF Sy # 0 THEN <<100 * n * slope[1], slope[2] * Sy>> ELSE <<0, 1>>
    IN  IF n < 3 THEN << >>
        ELSE IF slope[1] > 0 /\ FracGreater(r_sq, <<4, 10>>) /\ FracGreater(growth_pct, <<8, 1>>)
        THEN << Opp(<<"grow-001", << >> >>, "trend",
                    IF FracGreater(growth_pct, <<15, 1>>) THEN "high" ELSE "medium",
                    RoundHalfEven(105 * slope[1], slope[2]),
                    RoundPercent(r_sq[1], r_sq[2])) >>
        ELSE << >>

\* variant: the weekday taken from the day of the invocation instead of the record
WeekdayByClock(date) ==
    (date + now) % 7

\* datetime.strptime(d["date"], "%Y-%m-%d").weekday(): Monday is 0; a date is held
\* as its proleptic ordinal, and ordinal 1 (0001-01-01) is a Monday
Weekday(date) ==
    (date + 6) % 7

\* _analyse_scheduling_opportunities
analyse_scheduling_opportunities(ds) ==
    LET IsWeekday(d) == Weekday(d.date) < 5
        IsWeekend(d) == ~IsWeekday(d)
        weekday_costs == Costs(SelectSeq(ds, IsWeekday))
        weekend_costs == Costs(SelectSeq(ds, IsWeekend))
        nwd == Len(weekday_costs)
        nwe == Len(weekend_costs)
        Swd == SumSeq(weekday_costs)
        Swe == SumSeq(weekend_costs)
        \* weekend_excess = (avg_weekend - avg_weekday * 0.3) * 8
        weekend_excess == <<8 * (10 * Swe * nwd - 3 * Swd * nwe), 10 * nwe * nwd>>
        weekend ==
            IF Swd > 0 /\ 10 * Swe * nwd > 6 * Swd * nwe /\ FracGreater(weekend_excess, <<5, 1>>)
            THEN << Opp(<<"sched-001", << >> >>, "scheduling", "medium",
                        RoundHalfEven(100 * weekend_excess[1], weekend_excess[2]), 65) >>
            ELSE << >>
        \* cv = std / avg_weekday < 0.15  <=>  400 * Wd < 9 * Swd^2, Wd = nwd^2 * variance
        Wd == nwd * SumSeq([i \in 1..nwd |-> weekday_costs[i] * weekday_costs[i]]) - Swd * Swd
        flat ==
            IF Swd > 0 /\ 400 * Wd < 9 * Swd * Swd /\ Swd > 5 * nwd
            THEN << Opp(<<"sched-002", << >> >>, "scheduling", "medium",
                        RoundHalfEven(1050 * Swd, nwd), 60) >>
            ELSE << >>
    IN  IF Len(ds) < 14 THEN << >>
        ELSE IF nwd = 0 \/ nwe = 0 THEN << >>
        ELSE weekend \o flat

\* _analyse_storage_optimization
analyse_storage_optimization(uts) ==
    LET IsStorage(u) == MatchesAny(u.usage_type, StorageKeywords)
        storage_cost == SumSeq(Costs(SelectSeq(uts, IsStorage)))
    IN  IF storage_cost > 10
        THEN << Opp(<<"stor-001", << >> >>, "storage",
                    IF storage_cost > 100 THEN "high" ELSE "medium",
                    30 * storage_cost, 72) >>
        ELSE << >>

\* the loop of _analyse_savings_plan_coverage over resp["SavingsPlansCoverages"]
CoverageOpps(coverages) ==
    LET One(c) ==
            IF c.pct < 60 /\ c.on_demand > 50
            THEN << Opp(<<"sp-001", << >> >>, "commitment",
                        IF c.pct < 30 THEN "critical" ELSE "high",
                        25 * c.on_demand, 88) >>
            ELSE << >>
    IN  Concat([i \in 1..Len(coverages) |-> One(coverages[i])])

-----------------------------------------------------------------------------
(* The account's billing data: what Cost Explorer answers *)

\* days in the daily series the provider returns
MaxDays == 14

\* the first date of the daily series, as an ordinal (ordinal 1 is a Monday)
FirstDay == 1

\* invocations of generate_opportunities in one behaviour
MaxRequests == 2

\* days the clock may advance between two invocations
MaxTicks == 1

\* requests that run generate_opportunities at the same time
NumThreads ==
    2

\* calls of the account manager in one behaviour, one after another
MaxCalls ==
    5

\* the AWS accounts there are to register
MaxAwsIds ==
    3

\* gunicorn_config.py: workers = 3, each a process of its own serving requests
workers ==
    3

\* "Amazon Elastic Container Service"
SvcECS ==
    <<"A", "m", "a", "z", "o", "n", " ", "E", "l", "a", "s", "t", "i", "c", " ", "C", "o", "n", "t", "a", "i", "n", "e", "r", " ", "S", "e", "r", "v", "i", "c", "e">>

\* "Amazon Elastic Container Registry"
SvcECR ==
    <<"A", "m", "a", "z", "o", "n", " ", "E", "l", "a", "s", "t", "i", "c", " ", "C", "o", "n", "t", "a", "i", "n", "e", "r", " ", "R", "e", "g", "i", "s", "t", "r", "y">>

\* "AWS Lambda"
SvcLambda ==
    <<"A", "W", "S", " ", "L", "a", "m", "b", "d", "a">>

\* "Amazon S3"
SvcS3 ==
    <<"A", "m", "a", "z", "o", "n", " ", "S", "3">>

\* "Amazon RDS"
SvcRDS ==
    <<"A", "m", "a", "z", "o", "n", " ", "R", "D", "S">>

\* "Amazon SQS"
SvcSQS ==
    <<"A", "m", "a", "z", "o", "n", " ", "S", "Q", "S">>

\* "Amazon SNS"
SvcSNS ==
    <<"A", "m", "a", "z", "o", "n", " ", "S", "N", "S">>

\* "us-east-1"
RegionUsEast1 ==
    <<"u", "s", "-", "e", "a", "s", "t", "-", "1">>

\* "eu-west-1"
RegionEuWest1 ==
    <<"e", "u", "-", "w", "e", "s", "t", "-", "1">>

\* "USE1-DataTransfer-Out-Bytes"
UsageDataTransfer ==
    <<"U", "S", "E", "1", "-", "D", "a", "t", "a", "T", "r", "a", "n", "s", "f", "e", "r", "-", "O", "u", "t", "-", "B", "y", "t", "e", "s">>

\* "TimedStorage-ByteHrs"
UsageStorage ==
    <<"T", "i", "m", "e", "d", "S", "t", "o", "r", "a", "g", "e", "-", "B", "y", "t", "e", "H", "r", "s">>

\* "BoxUsage:t3.micro"
UsageCompute ==
    <<"B", "o", "x", "U", "s", "a", "g", "e", ":", "t", "3", ".", "m", "i", "c", "r", "o">>

\* n consecutive days from FirstDay, costing base + slope * i on day i
DailySeries(n, base, slope) ==
    [i \in 1..n |-> [date |-> FirstDay + i - 1, cost |-> base + slope * (i - 1)]]

\* n days at `level`, the last day at `peak`
SpikeSeries(n, level, peak) ==
    [i \in 1..n |-> IF i = n THEN peak ELSE level]

Dates(n) ==
    [i \in 1..n |-> FirstDay + i - 1]

DailyChoices ==
    { << >>, DailySeries(MaxDays, 10, 0), DailySeries(MaxDays, 0, 1) }

\* the per-service totals, in the order the response lists the groups
ServiceChoices ==
    { << >>,
      << [service |-> SvcECR, cost |-> 5], [service |-> SvcECS, cost |-> 90],
         [service |-> SvcLambda, cost |-> 5] >>,
      << [service |-> SvcECS, cost |-> MaxDays], [service |-> SvcECR, cost |-> MaxDays] >> }

RegionChoices ==
    { << >>,
      << [region |-> RegionEuWest1, cost |-> 10], [region |-> RegionUsEast1, cost |-> 100] >> }

UsageTypeChoices ==
    { << >>,
      << [usage_type |-> UsageDataTransfer, cost |-> 24],
         [usage_type |-> UsageCompute, cost |-> 50],
         [usage_type |-> UsageStorage, cost |-> 20] >> }

MonthlyChoices ==
    { << >>,
      << [month |-> 1, cost |-> 10], [month |-> 2, cost |-> 20], [month |-> 3, cost |-> 30] >> }

\* the daily per-service amounts: the dates, and each service's amounts day by day
DailyServiceChoices ==
    { [dates |-> << >>, groups |-> << >>],
      [dates |-> Dates(MaxDays),
       groups |-> << [service |-> SvcECS, series |-> SpikeSeries(MaxDays, 1, 1)],
                     [service |-> SvcECR, series |-> SpikeSeries(MaxDays, 1, 1)] >>],
      [dates |-> Dates(MaxDays),
       groups |-> << [service |-> SvcECR, series |-> SpikeSeries(MaxDays, 1, 15)],
                     [service |-> SvcECS, series |-> SpikeSeries(MaxDays, 1, 29)] >>] }

\* resp["SavingsPlansCoverages"]: CoveragePercentage and OnDemandCost per record
CoverageChoices ==
    { << >>,
      << [pct |-> 20, on_demand |-> 100], [pct |-> 50, on_demand |-> 200] >> }

Providers ==
    [ daily : DailyChoices, services : ServiceChoices, regions : RegionChoices,
      usage_types : UsageTypeChoices, monthly : MonthlyChoices,
      daily_svc : DailyServiceChoices, coverage : CoverageChoices ]

\* the services of an account with many small services; the first and the third
\* have the same first 15 characters after "Amazon "
SmallServices ==
    << SvcECS, SvcLambda, SvcECR, SvcS3, SvcRDS, SvcSQS, SvcSNS >>

\* an account whose services all cost a little over 2 a day, the i-th one at a steady
\* 2 a day when steady[i] and at 0 and 4 on alternate days otherwise
SmallServicesAccount(steady) ==
    LET n == Len(SmallServices)
    IN  [ daily |-> << >>,
          services |-> [i \in 1..n |->
                           [service |-> SmallServices[i], cost |-> 2 * MaxDays + n - i]],
          regions |-> << >>, usage_types |-> << >>, monthly |-> << >>,
          daily_svc |->
              [dates |-> Dates(MaxDays),
               groups |-> [i \in 1..n |->
                   [service |-> SmallServices[i],
                    series |-> [d \in 1..MaxDays |->
                                   IF steady[i] THEN 2 ELSE IF d % 2 = 1 THEN 0 ELSE 4]]]],
          coverage |-> << >> ]

\* ... with five or more of them steady
SmallServicesAccounts ==
    { SmallServicesAccount(steady) :
        steady \in { s \in [1..Len(SmallServices) -> BOOLEAN] :
                        Cardinality({ i \in DOMAIN s : s[i] }) >= 5 } }

\* coverage records: low coverage of a large on-demand spend (qualifies, critical),
\* medium coverage of a larger one (qualifies, high), and good coverage
CoverageRecords ==
    { [pct |-> 20, on_demand |-> 100], [pct |-> 50, on_demand |-> 200],
      [pct |-> 70, on_demand |-> 300] }

\* accounts with nothing to report but one to three coverage records
CoverageAccounts ==
    { [ daily |-> << >>, services |-> << >>, regions |-> << >>, usage_types |-> << >>,
        monthly |-> << >>, daily_svc |-> [dates |-> << >>, groups |-> << >>],
        coverage |-> c ] :
        c \in UNION { [1..n -> CoverageRecords] : n \in 1..3 } }

Fetches ==
    { "daily", "service", "region", "usage_type", "monthly", "daily_service" }

Queries ==
    Fetches \cup { "coverage" }

Analyzers ==
    << "cost_trend", "service_concentration", "service_spikes", "region_waste",
       "data_transfer", "idle_services", "monthly_growth", "scheduling",
       "storage", "savings_plan" >>

\* no call fails, one query fails, the session or client cannot be built, or
\* Cost Explorer is unreachable
FailureModes ==
    { {} } \cup { {q} : q \in Queries } \cup { {"client"} } \cup { Queries }

\* the analysers are pure functions of the fetched data: which of them raise is a
\* property of the data (an amount out of float range, a date in another format).
\* _analyse_savings_plan_coverage catches every exception itself.
FaultyModes ==
    { {} } \cup { {Analyzers[a]} : a \in 1..9 }

-----------------------------------------------------------------------------
(* Data fetchers *)

\* sorted(items, key=lambda x: x["cost"], reverse=True): a stable sort, so items of
\* equal cost keep their order.  Rank is the place of items[i] in the result.
SortedByCostDesc(items) ==
    LET n == Len(items)
        Rank(i) == Cardinality({j \in 1..n : items[j].cost > items[i].cost})
                   + Cardinality({j \in 1..(i - 1) : items[j].cost = items[i].cost}) + 1
    IN  [p \in 1..n |-> items[CHOOSE i \in 1..n : Rank(i) = p]]

\* "global"
Global ==
    <<"g", "l", "o", "b", "a", "l">>

\* _fetch_daily_costs
DailyCostsOf(p) ==
    [i \in 1..Len(p.daily) |-> [date |-> p.daily[i].date, cost |-> p.daily[i].cost]]

\* _fetch_service_costs
ServiceCostsOf(p) ==
    SortedByCostDesc(p.services)

\* _fetch_region_costs: the key is g["Keys"][0] or "global"
RegionCostsOf(p) ==
    SortedByCostDesc([i \in 1..Len(p.regions) |->
        [region |-> IF p.regions[i].region = << >> THEN Global ELSE p.regions[i].region,
         cost   |-> p.regions[i].cost]])

\* _fetch_usage_type_costs: sorted(...)[:25]
UsageTypeCostsOf(p) ==
    Take(SortedByCostDesc(p.usage_types), 25)

\* _fetch_monthly_totals
MonthlyTotalsOf(p) ==
    [i \in 1..Len(p.monthly) |-> [month |-> p.monthly[i].month, cost |-> p.monthly[i].cost]]

\* _fetch_daily_service_costs(30, 8): the top_n services by total, and their series
DailyServiceCostsOf(p, top_n) ==
    LET groups == p.daily_svc.groups
        totals == [i \in 1..Len(groups) |->
                      [service |-> groups[i].service, cost |-> SumSeq(groups[i].series),
                       series |-> groups[i].series]]
        top    == Take(SortedByCostDesc(totals), top_n)
    IN  [dates    |-> p.daily_svc.dates,
         services |-> [i \in 1..Len(top) |-> top[i].service],
         data     |-> [s \in {top[i].service : i \in 1..Len(top)} |->
                          (CHOOSE t \in {top[i] : i \in 1..Len(top)} : t.service = s).series]]

\* self.ce raises when the session or the client cannot be built; the query raises
\* when Cost Explorer refuses it
CallRaises(q) ==
    "client" \in failing \/ q \in failing

RaisedBy(q) ==
    IF "client" \in failing THEN "NoCredentialsError" ELSE "ClientError"

\* self.ce.get_cost_and_usage / get_savings_plans_coverage: the call as issued
Issue(q, lookback) ==
    IF "client" \in failing THEN calls
    ELSE Append(calls, [query |-> q, lookback |-> lookback, today |-> now])

\* variant: the trend analyser without its length guard divides by len(costs) = 0
AnalyzerRaisesOnNoData(a) ==
    a \in faulty \/ (a = "cost_trend" /\ daily = << >>)

\* whether an analyser raises on the data it is given
AnalyzerRaises(a) ==
    a \in faulty

\* _analyse_savings_plan_coverage: the try / except around the query and the loop
analyse_savings_plan_coverage ==
    IF CallRaises("coverage") THEN << >> ELSE CoverageOpps(provider.coverage)

-----------------------------------------------------------------------------
(* generate_opportunities *)

NoMatrix ==
    [dates |-> << >>, services |-> << >>, data |-> << >>]

\* the classes `except Exception` catches
ExceptionClasses ==
    { "ClientError", "NoCredentialsError", "OverflowError" }

\* variant: a handler written as "except ClientError"
CaughtClientErrorOnly(e) ==
    e = "ClientError"

Caught(e) ==
    e \in ExceptionClasses

\* the dict appended by the except clause
ErrOpportunity ==
    Opp(<<"err-001", << >> >>, "system", "low", 0, 0)

\* variant: de-duplication through a dict keyed by id, where the last opportunity of
\* an id takes the place of the first
RECURSIVE DedupLoopLastWins(_, _, _)
DedupLoopLastWins(rest, seen, unique) ==
    IF rest = << >> THEN unique
    ELSE IF Head(rest).id \in seen
         THEN DedupLoopLastWins(Tail(rest), seen,
                  [k \in 1..Len(unique) |->
                      IF unique[k].id = Head(rest).id THEN Head(rest) ELSE unique[k]])
    ELSE DedupLoopLastWins(Tail(rest), seen \cup {Head(rest).id}, Append(unique, Head(rest)))

\* the de-duplication loop: the first opportunity of each id is kept
RECURSIVE DedupLoop(_, _, _)
DedupLoop(rest, seen, unique) ==
    IF rest = << >> THEN unique
    ELSE IF Head(rest).id \in seen THEN DedupLoop(Tail(rest), seen, unique)
    ELSE DedupLoop(Tail(rest), seen \cup {Head(rest).id}, Append(unique, Head(rest)))

\* variant: of the opportunities of one id, the one with the largest savings is kept
DedupKeepingLargest(opps) ==
    LET Largest(o) == \A k \in 1..Len(opps) :
                          opps[k].id = o.id => opps[k].estimated_savings <= o.estimated_savings
    IN  DedupLoop(SelectSeq(opps, Largest), {}, << >>)

Dedup(opps) ==
    DedupLoop(opps, {}, << >>)

\* variant: the sort without reverse=True
SortBySavingsAscending(unique) ==
    LET n == Len(unique)
        Rank(i) == Cardinality({j \in 1..n :
                       unique[j].estimated_savings < unique[i].estimated_savings})
                   + Cardinality({j \in 1..(i - 1) :
                       unique[j].estimated_savings = unique[i].estimated_savings}) + 1
    IN  [p \in 1..n |-> unique[CHOOSE i \in 1..n : Rank(i) = p]]

\* variant: an ascending sort followed by a reversal, which turns the ties around
SortBySavingsReversedTies(unique) ==
    LET n == Len(unique)
        Rank(i) == Cardinality({j \in 1..n :
                       unique[j].estimated_savings > unique[i].estimated_savings})
                   + Cardinality({j \in (i + 1)..n :
                       unique[j].estimated_savings = unique[i].estimated_savings}) + 1
    IN  [p \in 1..n |-> unique[CHOOSE i \in 1..n : Rank(i) = p]]

\* unique.sort(key=lambda x: x["estimated_savings"], reverse=True): stable
SortBySavings(unique) ==
    LET n == Len(unique)
        Rank(i) == Cardinality({j \in 1..n :
                       unique[j].estimated_savings > unique[i].estimated_savings})
                   + Cardinality({j \in 1..(i - 1) :
                       unique[j].estimated_savings = unique[i].estimated_savings}) + 1
    IN  [p \in 1..n |-> unique[CHOOSE i \in 1..n : Rank(i) = p]]

locals ==
    << daily, services, regions, usage_types, monthly, daily_svc >>

env ==
    << provider, failing, faulty >>

\* the state of one invocation after another
sequential ==
    << now, pc, daily, services, regions, usage_types, monthly, daily_svc,
       opportunities, calls, exc, result, requests, lastResult >>

\* the state of the invocations that run at the same time
concurrent ==
    << frames, heap >>

\* the state of a direct call of a helper or an analyser
direct ==
    << fn, arg, ret >>

\* what the invocations that follow one another leave alone
\* the account store and the calls of the account manager
accounts ==
    << store, call, procs, nextId >>

aside ==
    << concurrent, direct, accounts >>

Workers ==
    1..workers

\* no call of the account manager yet
NoCall ==
    [op |-> "", arg |-> 0, ret |-> 0, before |-> << >>, n |-> 0]

\* a worker that is not serving a request
IdleProc ==
    [op |-> "", pc |-> "idle", arg |-> 0, data |-> << >>, account |-> << >>,
     used |-> << >>, ret |-> 0]

\* data/accounts.json as _ensure_data_dir creates it: {"accounts": []}
NoAccounts ==
    /\ store = << >>
    /\ call = NoCall
    /\ procs = [w \in Workers |-> IdleProc]
    /\ nextId = 1

Threads ==
    1..NumThreads

\* a request that has not called generate_opportunities yet
IdleFrame ==
    [ pc |-> "ready", daily |-> << >>, services |-> << >>, regions |-> << >>,
      usage_types |-> << >>, monthly |-> << >>, daily_svc |-> NoMatrix,
      exc |-> "", result |-> << >> ]

NoConcurrent ==
    /\ frames = [t \in Threads |-> IdleFrame]
    /\ heap = [l \in Threads |-> << >>]

NoDirect ==
    /\ fn = ""
    /\ arg = << >>
    /\ ret = << >>

NoSequential ==
    /\ now = FirstDay + MaxDays
    /\ pc = "ready"
    /\ daily = << >>
    /\ services = << >>
    /\ regions = << >>
    /\ usage_types = << >>
    /\ monthly = << >>
    /\ daily_svc = NoMatrix
    /\ opportunities = << >>
    /\ calls = << >>
    /\ exc = ""
    /\ result = << >>
    /\ requests = 0
    /\ lastResult = << >>

Init ==
    /\ provider \in Providers \cup SmallServicesAccounts \cup CoverageAccounts
    /\ failing \in FailureModes
    /\ faulty \in FaultyModes
    /\ (failing \cap Fetches # {} \/ "client" \in failing) => faulty = {}
    /\ NoSequential
    /\ NoConcurrent
    /\ NoDirect
    /\ NoAccounts

\* api_cost_savings_ai calls generate_opportunities, which starts with opportunities = []
begin ==
    /\ pc \in {"ready", "returned"}
    /\ requests < MaxRequests
    /\ requests' = requests + 1
    /\ lastResult' = result
    /\ opportunities' = << >>
    /\ calls' = << >>
    /\ pc' = "fetch_daily"
    /\ UNCHANGED << env, aside, now, locals, exc, result >>

\* the date changes between two requests
tick ==
    /\ pc = "returned"
    /\ now < FirstDay + MaxDays + MaxTicks
    /\ now' = now + 1
    /\ UNCHANGED << env, aside, pc, locals, opportunities, calls, exc, result, requests, lastResult >>

fetch_daily_costs ==
    /\ pc = "fetch_daily"
    /\ calls' = Issue("daily", 60)
    /\ IF CallRaises("daily")
       THEN exc' = RaisedBy("daily") /\ pc' = "except" /\ UNCHANGED daily
       ELSE daily' = DailyCostsOf(provider) /\ pc' = "fetch_service" /\ UNCHANGED exc
    /\ UNCHANGED << env, aside, now, services, regions, usage_types, monthly, daily_svc,
                    opportunities, result, requests, lastResult >>

fetch_service_costs ==
    /\ pc = "fetch_service"
    /\ calls' = Issue("service", 30)
    /\ IF CallRaises("service")
       THEN exc' = RaisedBy("service") /\ pc' = "except" /\ UNCHANGED services
       ELSE services' = ServiceCostsOf(provider) /\ pc' = "fetch_region" /\ UNCHANGED exc
    /\ UNCHANGED << env, aside, now, daily, regions, usage_types, monthly, daily_svc,
                    opportunities, result, requests, lastResult >>

fetch_region_costs ==
    /\ pc = "fetch_region"
    /\ calls' = Issue("region", 30)
    /\ IF CallRaises("region")
       THEN exc' = RaisedBy("region") /\ pc' = "except" /\ UNCHANGED regions
       ELSE regions' = RegionCostsOf(provider) /\ pc' = "fetch_usage_type" /\ UNCHANGED exc
    /\ UNCHANGED << env, aside, now, daily, services, usage_types, monthly, daily_svc,
                    opportunities, result, requests, lastResult >>

fetch_usage_type_costs ==
    /\ pc = "fetch_usage_type"
    /\ calls' = Issue("usage_type", 30)
    /\ IF CallRaises("usage_type")
       THEN exc' = RaisedBy("usage_type") /\ pc' = "except" /\ UNCHANGED usage_types
       ELSE usage_types' = UsageTypeCostsOf(provider) /\ pc' = "fetch_monthly" /\ UNCHANGED exc
    /\ UNCHANGED << env, aside, now, daily, services, regions, monthly, daily_svc,
                    opportunities, result, requests, lastResult >>

fetch_monthly_totals ==
    /\ pc = "fetch_monthly"
    /\ calls' = Issue("monthly", 6)
    /\ IF CallRaises("monthly")
       THEN exc' = RaisedBy("monthly") /\ pc' = "except" /\ UNCHANGED monthly
       ELSE monthly' = MonthlyTotalsOf(provider) /\ pc' = "fetch_daily_service" /\ UNCHANGED exc
    /\ UNCHANGED << env, aside, now, daily, services, regions, usage_types, daily_svc,
                    opportunities, result, requests, lastResult >>

fetch_daily_service_costs ==
    /\ pc = "fetch_daily_service"
    /\ calls' = Issue("daily_service", 30)
    /\ IF CallRaises("daily_service")
       THEN exc' = RaisedBy("daily_service") /\ pc' = "except" /\ UNCHANGED daily_svc
       ELSE daily_svc' = DailyServiceCostsOf(provider, 8) /\ pc' = "cost_trend"
            /\ UNCHANGED exc
    /\ UNCHANGED << env, aside, now, daily, services, regions, usage_types, monthly,
                    opportunities, result, requests, lastResult >>

\* opportunities += self._analyse_x(...): the analyser raises, or its list is appended
Analyse(a, found, next) ==
    /\ pc = a
    /\ IF AnalyzerRaises(a)
       THEN exc' = "OverflowError" /\ pc' = "except" /\ UNCHANGED opportunities
       ELSE opportunities' = opportunities \o found /\ pc' = next /\ UNCHANGED exc
    /\ UNCHANGED << env, aside, now, locals, calls, result, requests, lastResult >>

run_cost_trend ==
    Analyse("cost_trend", analyse_cost_trend(daily), "service_concentration")

run_service_concentration ==
    Analyse("service_concentration", analyse_service_concentration(services),
            "service_spikes")

run_service_spikes ==
    Analyse("service_spikes", analyse_service_spikes(daily_svc), "region_waste")

run_region_waste ==
    Analyse("region_waste", analyse_region_waste(regions), "data_transfer")

run_data_transfer ==
    Analyse("data_transfer", analyse_data_transfer(usage_types), "idle_services")

run_idle_services ==
    Analyse("idle_services", analyse_idle_services(services, daily_svc), "monthly_growth")

run_monthly_growth ==
    Analyse("monthly_growth", analyse_monthly_growth(monthly), "scheduling")

run_scheduling_opportunities ==
    Analyse("scheduling", analyse_scheduling_opportunities(daily), "storage")

run_storage_optimization ==
    Analyse("storage", analyse_storage_optimization(usage_types), "savings_plan")

\* variant: the coverage query outside any try of its own
run_savings_plan_coverage_unguarded ==
    /\ pc = "savings_plan"
    /\ calls' = Issue("coverage", 30)
    /\ IF CallRaises("coverage")
       THEN exc' = RaisedBy("coverage") /\ pc' = "except" /\ UNCHANGED opportunities
       ELSE /\ opportunities' = opportunities \o CoverageOpps(provider.coverage)
            /\ pc' = "finish"
            /\ UNCHANGED exc
    /\ UNCHANGED << env, aside, now, locals, result, requests, lastResult >>

run_savings_plan_coverage ==
    /\ pc = "savings_plan"
    /\ calls' = Issue("coverage", 30)
    /\ opportunities' = opportunities \o analyse_savings_plan_coverage
    /\ pc' = "finish"
    /\ UNCHANGED << env, aside, now, locals, exc, result, requests, lastResult >>

\* variant: a handler that logs and appends nothing
except_swallow ==
    /\ pc = "except"
    /\ pc' = "finish"
    /\ exc' = ""
    /\ UNCHANGED << env, aside, now, locals, opportunities, calls, result, requests, lastResult >>

\* variant: a handler that replaces what was gathered so far by the marker
except_discard ==
    /\ pc = "except"
    /\ opportunities' = << ErrOpportunity >>
    /\ pc' = "finish"
    /\ exc' = ""
    /\ UNCHANGED << env, aside, now, locals, calls, result, requests, lastResult >>

\* except Exception as exc: the marker is appended to what was gathered so far
except_handler ==
    /\ pc = "except"
    /\ IF Caught(exc)
       THEN /\ opportunities' = Append(opportunities, ErrOpportunity)
            /\ pc' = "finish"
            /\ exc' = ""
       ELSE /\ pc' = "propagated"
            /\ UNCHANGED << opportunities, exc >>
    /\ UNCHANGED << env, aside, now, locals, calls, result, requests, lastResult >>

\* de-duplicate by id, sort by savings desc, return unique; the frame's data is dropped
finish ==
    /\ pc = "finish"
    /\ result' = SortBySavings(Dedup(opportunities))
    /\ pc' = "returned"
    /\ daily' = << >>
    /\ services' = << >>
    /\ regions' = << >>
    /\ usage_types' = << >>
    /\ monthly' = << >>
    /\ daily_svc' = NoMatrix
    /\ UNCHANGED << env, aside, now, opportunities, calls, exc, requests, lastResult >>

Next ==
    \/ begin
    \/ tick
    \/ fetch_daily_costs
    \/ fetch_service_costs
    \/ fetch_region_costs
    \/ fetch_usage_type_costs
    \/ fetch_monthly_totals
    \/ fetch_daily_service_costs
    \/ run_cost_trend
    \/ run_service_concentration
    \/ run_service_spikes
    \/ run_region_waste
    \/ run_data_transfer
    \/ run_idle_services
    \/ run_monthly_growth
    \/ run_scheduling_opportunities
    \/ run_storage_optimization
    \/ run_savings_plan_coverage
    \/ except_handler
    \/ finish

Spec ==
    Init /\ [][Next]_vars

-----------------------------------------------------------------------------
(* generate_opportunities called by requests that run at the same time, on the one
   CostSavingsAI instance of app.py *)

\* the statements of the try block, in order, then the code after it
Program ==
    << "fetch_daily", "fetch_service", "fetch_region", "fetch_usage_type",
       "fetch_monthly", "fetch_daily_service" >> \o Analyzers \o << "finish" >>

PcAfter(l) ==
    Program[(CHOOSE i \in 1..Len(Program) : Program[i] = l) + 1]

FetchLabels ==
    { Program[i] : i \in 1..6 }

AnalyzerSet ==
    { Analyzers[a] : a \in 1..Len(Analyzers) }

\* the query a fetch statement issues and the local it assigns
QueryAt(l) ==
    CASE l = "fetch_daily" -> "daily"
      [] l = "fetch_service" -> "service"
      [] l = "fetch_region" -> "region"
      [] l = "fetch_usage_type" -> "usage_type"
      [] l = "fetch_monthly" -> "monthly"
      [] l = "fetch_daily_service" -> "daily_service"

LocalAt(l) ==
    CASE l = "fetch_daily" -> "daily"
      [] l = "fetch_service" -> "services"
      [] l = "fetch_region" -> "regions"
      [] l = "fetch_usage_type" -> "usage_types"
      [] l = "fetch_monthly" -> "monthly"
      [] l = "fetch_daily_service" -> "daily_svc"

Fetched(q) ==
    CASE q = "daily" -> DailyCostsOf(provider)
      [] q = "service" -> ServiceCostsOf(provider)
      [] q = "region" -> RegionCostsOf(provider)
      [] q = "usage_type" -> UsageTypeCostsOf(provider)
      [] q = "monthly" -> MonthlyTotalsOf(provider)
      [] q = "daily_service" -> DailyServiceCostsOf(provider, 8)

\* self._analyse_x(...) on the locals of one invocation
FoundBy(a, f) ==
    CASE a = "cost_trend" -> analyse_cost_trend(f.daily)
      [] a = "service_concentration" -> analyse_service_concentration(f.services)
      [] a = "service_spikes" -> analyse_service_spikes(f.daily_svc)
      [] a = "region_waste" -> analyse_region_waste(f.regions)
      [] a = "data_transfer" -> analyse_data_transfer(f.usage_types)
      [] a = "idle_services" -> analyse_idle_services(f.services, f.daily_svc)
      [] a = "monthly_growth" -> analyse_monthly_growth(f.monthly)
      [] a = "scheduling" -> analyse_scheduling_opportunities(f.daily)
      [] a = "storage" -> analyse_storage_optimization(f.usage_types)
      [] a = "savings_plan" -> analyse_savings_plan_coverage

\* variant: the list kept on the instance (self.opportunities), one for all requests
ListOnInstance(t) ==
    1

\* opportunities = []: the list object an invocation creates and names in its frame
ListOf(t) ==
    t

\* a request enters generate_opportunities
enter(t) ==
    /\ frames[t].pc = "ready"
    /\ frames' = [frames EXCEPT ![t].pc = "fetch_daily"]
    /\ heap' = [heap EXCEPT ![ListOf(t)] = << >>]
    /\ UNCHANGED << env, accounts, sequential, direct >>

\* one of the six fetch statements
fetch(t) ==
    /\ frames[t].pc \in FetchLabels
    /\ LET l == frames[t].pc
       IN  IF CallRaises(QueryAt(l))
           THEN frames' = [frames EXCEPT ![t].exc = RaisedBy(QueryAt(l)),
                                         ![t].pc = "except"]
           ELSE frames' = [frames EXCEPT ![t][LocalAt(l)] = Fetched(QueryAt(l)),
                                         ![t].pc = PcAfter(l)]
    /\ UNCHANGED << env, accounts, sequential, heap, direct >>

\* one of the ten opportunities += self._analyse_x(...) statements
analyse(t) ==
    /\ frames[t].pc \in AnalyzerSet
    /\ LET a == frames[t].pc
       IN  IF AnalyzerRaises(a)
           THEN /\ frames' = [frames EXCEPT ![t].exc = "OverflowError", ![t].pc = "except"]
                /\ UNCHANGED heap
           ELSE /\ heap' = [heap EXCEPT ![ListOf(t)] = @ \o FoundBy(a, frames[t])]
                /\ frames' = [frames EXCEPT ![t].pc = PcAfter(a)]
    /\ UNCHANGED << env, accounts, sequential, direct >>

\* the except clause
handle(t) ==
    /\ frames[t].pc = "except"
    /\ IF Caught(frames[t].exc)
       THEN /\ heap' = [heap EXCEPT ![ListOf(t)] = Append(@, ErrOpportunity)]
            /\ frames' = [frames EXCEPT ![t].exc = "", ![t].pc = "finish"]
       ELSE /\ frames' = [frames EXCEPT ![t].pc = "propagated"]
            /\ UNCHANGED heap
    /\ UNCHANGED << env, accounts, sequential, direct >>

\* de-duplicate, sort, return
leave(t) ==
    /\ frames[t].pc = "finish"
    /\ frames' = [frames EXCEPT ![t] =
                     [IdleFrame EXCEPT !.pc = "returned",
                                       !.result = SortBySavings(Dedup(heap[ListOf(t)]))]]
    /\ UNCHANGED << env, accounts, sequential, heap, direct >>

\* the accounts the concurrent requests are checked on: nothing to report, or an
\* account on which every query answers and two services have a spike
ConcurrentProviders ==
    { p \in Providers :
        \/ p = [ daily |-> << >>, services |-> << >>, regions |-> << >>,
                 usage_types |-> << >>, monthly |-> << >>,
                 daily_svc |-> [dates |-> << >>, groups |-> << >>], coverage |-> << >> ]
        \/ /\ p.daily = DailySeries(MaxDays, 0, 1)
           /\ Len(p.services) = 3
           /\ Len(p.regions) = 2
           /\ Len(p.usage_types) = 3
           /\ Len(p.monthly) = 3
           /\ Len(p.daily_svc.groups) = 2
           /\ p.daily_svc.groups[1].service = SvcECR
           /\ Len(p.coverage) = 2 }

InitConcurrent ==
    /\ provider \in ConcurrentProviders
    /\ failing \in FailureModes
    /\ faulty \in FaultyModes
    /\ (failing \cap Fetches # {} \/ "client" \in failing) => faulty = {}
    /\ NoSequential
    /\ NoConcurrent
    /\ NoDirect
    /\ NoAccounts

NextConcurrent ==
    \/ \E t \in Threads : enter(t)
    \/ \E t \in Threads : fetch(t)
    \/ \E t \in Threads : analyse(t)
    \/ \E t \in Threads : handle(t)
    \/ \E t \in Threads : leave(t)

SpecConcurrent ==
    InitConcurrent /\ [][NextConcurrent]_vars

-----------------------------------------------------------------------------
(* Properties of generate_opportunities *)

Range(s) ==
    { s[i] : i \in 1..Len(s) }

IdsOf(s) ==
    { s[i].id : i \in 1..Len(s) }

\* the fetches whose result an analyser is given
DependsOn(a) ==
    CASE a \in {"cost_trend", "scheduling"} -> {"daily"}
      [] a = "service_concentration" -> {"service"}
      [] a = "service_spikes" -> {"daily_service"}
      [] a = "region_waste" -> {"region"}
      [] a \in {"data_transfer", "storage"} -> {"usage_type"}
      [] a = "idle_services" -> {"service", "daily_service"}
      [] a = "monthly_growth" -> {"monthly"}
      [] a = "savings_plan" -> {}

\* what an analyser finds in the account's data when its fetches succeed
ProducedBy(a) ==
    CASE a = "cost_trend" -> analyse_cost_trend(DailyCostsOf(provider))
      [] a = "service_concentration" -> analyse_service_concentration(ServiceCostsOf(provider))
      [] a = "service_spikes" -> analyse_service_spikes(DailyServiceCostsOf(provider, 8))
      [] a = "region_waste" -> analyse_region_waste(RegionCostsOf(provider))
      [] a = "data_transfer" -> analyse_data_transfer(UsageTypeCostsOf(provider))
      [] a = "idle_services" ->
            analyse_idle_services(ServiceCostsOf(provider), DailyServiceCostsOf(provider, 8))
      [] a = "monthly_growth" -> analyse_monthly_growth(MonthlyTotalsOf(provider))
      [] a = "scheduling" -> analyse_scheduling_opportunities(DailyCostsOf(provider))
      [] a = "storage" -> analyse_storage_optimization(UsageTypeCostsOf(provider))
      [] a = "savings_plan" -> analyse_savings_plan_coverage

AnalyzerNames ==
    { Analyzers[a] : a \in 1..Len(Analyzers) }

\* the position of the first opportunity with this id
FirstIndex(s, id) ==
    CHOOSE k \in 1..Len(s) : s[k].id = id /\ \A m \in 1..(k - 1) : s[m].id # id

EmptyProvider ==
    [ daily |-> << >>, services |-> << >>, regions |-> << >>, usage_types |-> << >>,
      monthly |-> << >>, daily_svc |-> [dates |-> << >>, groups |-> << >>],
      coverage |-> << >> ]

\* C1 (as claimed): when exactly one of the six data fetches raises and the others
\* succeed, the returned list still holds every opportunity of the analysers that do
\* not depend on the failed fetch.
C1_FetchIsolation ==
    (pc = "returned" /\ \E q \in Fetches : failing = {q})
        => \A a \in AnalyzerNames :
              DependsOn(a) \cap failing = {} => IdsOf(ProducedBy(a)) \subseteq IdsOf(result)

\* C2 (as claimed): when one analyser raises, every other analyser, also those ordered
\* after it, still runs and its opportunities are in the returned list.
C2_AnalyzerIsolation ==
    (pc = "returned" /\ failing = {} /\ faulty # {})
        => \A b \in AnalyzerNames \ faulty : IdsOf(ProducedBy(b)) \subseteq IdsOf(result)

IsOpportunity(o) ==
    /\ DOMAIN o = {"id", "category", "priority", "estimated_savings", "confidence"}
    /\ o.estimated_savings \in Int
    /\ o.confidence \in Int

\* C3: whatever call or analyser raises (the session or client build included), the
\* exception raised is one the handler catches, none leaves generate_opportunities,
\* and what it returns is a list of opportunities.
C3_NeverPropagates ==
    /\ pc # "propagated"
    /\ pc = "except" => Caught(exc)
    /\ pc = "returned" =>
          /\ DOMAIN result = 1..Len(result)
          /\ \A i \in 1..Len(result) : IsOpportunity(result[i])

\* an invocation returned although the session / client could not be built
C3_Witness ==
    pc = "returned" /\ "client" \in failing /\ Len(result) = 1

\* C4: when every provider fetch raises, the returned list has exactly one element,
\* of category "system", priority "low" and estimated_savings 0.
C4_TotalFailure ==
    (pc = "returned" /\ \A q \in Fetches : CallRaises(q))
        => /\ Len(result) = 1
           /\ result[1].category = "system"
           /\ result[1].priority = "low"
           /\ result[1].estimated_savings = 0

C4_Witness ==
    pc = "returned" /\ failing = Queries /\ result = <<ErrOpportunity>>

\* C5: in every returned list each element's estimated_savings is at least that of
\* the element after it.
C5_SortedBySavings ==
    \A i \in 1..(Len(result) - 1) :
        result[i].estimated_savings >= result[i + 1].estimated_savings

\* a list was returned whose elements were gathered in another order
C5_Witness ==
    /\ pc = "returned"
    /\ Len(result) >= 3
    /\ \E i, j \in 1..Len(opportunities) :
          i < j /\ opportunities[i].estimated_savings < opportunities[j].estimated_savings

\* C6: no two elements of the returned list share an id; every id gathered is
\* returned, as its first opportunity in the order gathered; and with no failure the
\* opportunities are gathered in the analyser order cost trend, concentration, spikes,
\* region, data transfer, idle, monthly growth, scheduling, storage, commitment.
C6_DedupFirstWins ==
    pc = "returned" =>
        /\ \A i, j \in 1..Len(result) : i # j => result[i].id # result[j].id
        /\ IdsOf(result) = IdsOf(opportunities)
        /\ \A j \in 1..Len(result) :
              result[j] = opportunities[FirstIndex(opportunities, result[j].id)]
        /\ (failing \subseteq {"coverage"} /\ faulty = {}) =>
              opportunities =
                  ProducedBy("cost_trend") \o ProducedBy("service_concentration")
                  \o ProducedBy("service_spikes") \o ProducedBy("region_waste")
                  \o ProducedBy("data_transfer") \o ProducedBy("idle_services")
                  \o ProducedBy("monthly_growth") \o ProducedBy("scheduling")
                  \o ProducedBy("storage") \o ProducedBy("savings_plan")

\* two different opportunities with one id were gathered
C6_Witness ==
    /\ pc = "returned"
    /\ \E i, j \in 1..Len(opportunities) :
          /\ i < j
          /\ opportunities[i].id = opportunities[j].id
          /\ opportunities[i] # opportunities[j]

\* C7: two returned opportunities of equal estimated_savings are in the order in
\* which they were gathered.
C7_StableTies ==
    pc = "returned" =>
        \A i, j \in 1..Len(result) :
            (i < j /\ result[i].estimated_savings = result[j].estimated_savings)
                => FirstIndex(opportunities, result[i].id)
                       < FirstIndex(opportunities, result[j].id)

C7_Witness ==
    /\ pc = "returned"
    /\ \E i, j \in 1..Len(result) :
          i < j /\ result[i].estimated_savings = result[j].estimated_savings

\* C8: every opportunity gathered or returned, the error marker included, has
\* estimated_savings >= 0 and 0 <= confidence <= 100.
C8_SavingsAndConfidenceRange ==
    \A o \in Range(opportunities) \cup Range(result) :
        o.estimated_savings >= 0 /\ 0 <= o.confidence /\ o.confidence <= 100

\* a spike whose score 50 + z * 15 is over 100 was emitted, beside ten other findings
C8_Witness ==
    /\ pc = "returned"
    /\ Len(result) >= 10
    /\ \E i \in 1..Len(opportunities) :
          /\ opportunities[i].id[1] = "spike-"
          /\ opportunities[i].confidence = 95

\* C9: a second invocation over the same fetched series returns the list the first
\* returned, whatever the date has become and whatever the first left behind.
C9_Deterministic ==
    (pc = "returned" /\ requests >= 2) => result = lastResult

C9_Witness ==
    /\ pc = "returned"
    /\ requests = 2
    /\ now > FirstDay + MaxDays
    /\ Len(result) >= 3
    /\ \E i \in 1..Len(result) : result[i].id[1] = "sched-001"

\* C10: when every fetch succeeds with an empty series and the coverage query
\* returns no record, the returned list is empty.
C10_NoData ==
    (pc = "returned" /\ failing = {} /\ faulty = {} /\ provider = EmptyProvider)
        => result = << >>

C10_Witness ==
    /\ pc = "returned"
    /\ failing = {}
    /\ faulty = {}
    /\ provider = EmptyProvider
    /\ Len(calls) = 7

\* what the nine analysers before the commitment analysis find, in their order
NineOthers ==
    ProducedBy("cost_trend") \o ProducedBy("service_concentration")
    \o ProducedBy("service_spikes") \o ProducedBy("region_waste")
    \o ProducedBy("data_transfer") \o ProducedBy("idle_services")
    \o ProducedBy("monthly_growth") \o ProducedBy("scheduling")
    \o ProducedBy("storage")

\* C11: when the coverage query raises or answers no record (and nothing else
\* fails), the commitment analyser yields nothing, the returned list has neither
\* err-001 nor sp-001, and it is the de-duplicated, sorted list of the nine others.
C11_CoverageUnavailable ==
    (/\ pc = "returned"
     /\ faulty = {}
     /\ failing = {"coverage"} \/ (failing = {} /\ provider.coverage = << >>))
        => /\ analyse_savings_plan_coverage = << >>
           /\ \A i \in 1..Len(result) : result[i].id[1] \notin {"err-001", "sp-001"}
           /\ opportunities = NineOthers
           /\ result = SortBySavings(Dedup(NineOthers))

\* the coverage query raised on an account whose coverage would give sp-001, and
\* the other analysers' findings were returned
C11_Witness ==
    /\ pc = "returned"
    /\ failing = {"coverage"}
    /\ CoverageOpps(provider.coverage) # << >>
    /\ Len(result) >= 3
    /\ Len(calls) = 7

\* the first analyser that raises on this account's data (11 when none does)
FirstFaulty ==
    IF \E a \in 1..Len(Analyzers) : AnalyzerRaises(Analyzers[a])
    THEN CHOOSE a \in 1..Len(Analyzers) :
            /\ AnalyzerRaises(Analyzers[a])
            /\ \A b \in 1..(a - 1) : ~AnalyzerRaises(Analyzers[b])
    ELSE Len(Analyzers) + 1

\* what one invocation, run alone on this account's data, gathers
AloneGathered ==
    IF \E q \in Fetches : CallRaises(q)
    THEN << ErrOpportunity >>
    ELSE Concat([a \in 1..(FirstFaulty - 1) |-> ProducedBy(Analyzers[a])])
         \o (IF FirstFaulty <= Len(Analyzers) THEN << ErrOpportunity >> ELSE << >>)

\* ... and returns
AloneResult ==
    SortBySavings(Dedup(AloneGathered))

\* the invocations that follow one another return AloneResult
AloneIsSequential ==
    pc = "returned" => opportunities = AloneGathered /\ result = AloneResult

IsPrefix(s, t) ==
    Len(s) <= Len(t) /\ \A i \in 1..Len(s) : s[i] = t[i]

\* C12: requests that run generate_opportunities at the same time on the shared
\* instance each have a list of their own, which holds only what that invocation
\* gathered, and each returns what one invocation alone returns on the same data,
\* in every interleaving of their statements.
C12_ConcurrentAsAlone ==
    LET alone == AloneGathered
    IN  \A t \in Threads :
            /\ frames[t].pc # "ready" => IsPrefix(heap[ListOf(t)], alone)
            /\ frames[t].pc # "propagated"
            /\ frames[t].pc = "returned"
                   => frames[t].result = SortBySavings(Dedup(alone))

\* two invocations are under way at once, each with findings in its list: one has
\* all of its own and is about to return, the other is still analysing
C12_Witness ==
    /\ frames[1].pc = "finish"
    /\ frames[2].pc = "region_waste"
    /\ Len(heap[ListOf(1)]) >= 10
    /\ Len(heap[ListOf(2)]) >= 3
    /\ Len(heap[ListOf(2)]) < Len(heap[ListOf(1)])

-----------------------------------------------------------------------------
(* The helpers and the analysers called directly *)

\* Python floats are binary floating point: every operation returns the exact result
\* rounded to the nearest value of MantissaBits significant bits, an exact half to
\* the even neighbour.  binary64 has 53 of them; the rounding is the same with fewer.
MantissaBits ==
    3

\* the longest series a helper is called with, and its largest value
MaxLen ==
    4

MaxValue ==
    7

RECURSIVE Pow2(_)
Pow2(k) ==
    IF k = 0 THEN 1 ELSE 2 * Pow2(k - 1)

\* the float nearest to (a / den) * 2^e for a > 0, den > 0, as [m, e] = m * 2^e
RECURSIVE FlNormal(_, _, _)
FlNormal(a, den, e) ==
    IF a >= den * Pow2(MantissaBits) THEN FlNormal(a, 2 * den, e + 1)
    ELSE IF a < den * Pow2(MantissaBits - 1) THEN FlNormal(2 * a, den, e - 1)
    ELSE LET m == RoundHalfEven(a, den)
         IN  IF m = Pow2(MantissaBits)
             THEN [m |-> Pow2(MantissaBits - 1), e |-> e + 1]
             ELSE [m |-> m, e |-> e]

FlRound(num, den, e) ==
    IF num = 0 THEN [m |-> 0, e |-> 0]
    ELSE IF num > 0 THEN FlNormal(num, den, e)
    ELSE LET f == FlNormal(-num, den, e) IN [m |-> -f.m, e |-> f.e]

FlFromInt(k) ==
    FlRound(k, 1, 0)

FlAdd(x, y) ==
    LET e == IF x.e < y.e THEN x.e ELSE y.e
    IN  FlRound(x.m * Pow2(x.e - e) + y.m * Pow2(y.e - e), 1, e)

FlSub(x, y) ==
    FlAdd(x, [m |-> -y.m, e |-> y.e])

FlMul(x, y) ==
    FlRound(x.m * y.m, 1, x.e + y.e)

FlDiv(x, y) ==
    IF y.m > 0 THEN FlRound(x.m, y.m, x.e - y.e) ELSE FlRound(-x.m, -y.m, x.e - y.e)

\* math.sqrt of a float > 0, correctly rounded
RECURSIVE FlSqrtScaled(_, _)
FlSqrtScaled(M, e) ==
    IF M < Pow2(2 * MantissaBits - 2) THEN FlSqrtScaled(4 * M, e - 1)
    ELSE LET r == ISqrt(M)
         IN  FlRound(IF (2 * r + 1) * (2 * r + 1) < 4 * M THEN r + 1 ELSE r, 1, e)

FlSqrt(x) ==
    IF x.e % 2 = 0 THEN FlSqrtScaled(x.m, x.e \div 2)
    ELSE FlSqrtScaled(2 * x.m, (x.e - 1) \div 2)

\* sum(...) of floats: from 0, left to right
RECURSIVE FlSum(_)
FlSum(s) ==
    IF s = << >> THEN [m |-> 0, e |-> 0]
    ELSE FlAdd(FlSum(SubSeq(s, 1, Len(s) - 1)), s[Len(s)])

\* _z_scores(values) in floating point
z_scores_float(values) ==
    LET n    == Len(values)
        mean == FlDiv(FlSum(values), FlFromInt(n))
        sq   == [i \in 1..n |-> FlMul(FlSub(values[i], mean), FlSub(values[i], mean))]
        var  == FlDiv(FlSum(sq), FlFromInt(n))
        root == IF var.m = 0 THEN var ELSE FlSqrt(var)
        std  == IF root.m = 0 THEN FlFromInt(1) ELSE root
    IN  IF n < 3 THEN [i \in 1..n |-> FlFromInt(0)]
        ELSE [i \in 1..n |-> FlDiv(FlSub(values[i], mean), std)]

\* the series the helpers are called with
\* the largest step of the longer series
MaxStep ==
    2

\* every short series, and the constant, rising and falling series of up to
\* MaxDays values
SeriesArguments ==
    UNION { [1..n -> 0..MaxValue] : n \in 0..MaxLen }
    \cup { [i \in 1..n |-> a + d * (i - 1)] :
              n \in (MaxLen + 1)..MaxDays, a \in 0..MaxValue, d \in 0..MaxStep }
    \cup { [i \in 1..n |-> a + d * (n - i)] :
              n \in (MaxLen + 1)..MaxDays, a \in 0..MaxValue, d \in 1..MaxStep }

\* daily cost levels and steps around the thresholds of the trend analyser: a week of
\* 5 followed by a week of 7 is a rise of 40%, 20 followed by 23 one of 15%, and
\* steps of 1 on 8 or on 34 give projected increases on both sides of 20% and of 5%
LevelsAndSteps ==
    { <<0, 1>>, <<2, 3>>, <<8, 1>>, <<34, 1>> }

\* the lengths around the 14 days the trend analyser asks for
TrendLengths ==
    { 0 } \cup (13..(MaxDays + 1))

\* a daily series of n days: each of the last 14 days costs ls[1] or ls[1] + ls[2],
\* as `up` says, and the days before them all cost the one or all the other
TwoLevels(n, ls, up, old) ==
    LET before == IF n > 14 THEN n - 14 ELSE 0
    IN  [i \in 1..n |->
            [date |-> FirstDay + i - 1,
             cost |-> ls[1] + ls[2] * (IF i <= before THEN old ELSE up[i - before])]]

\* the argument is a series of numbers
SeriesArgument ==
    \E s \in SeriesArguments : arg = [kind |-> "series", value |-> s]

\* the argument is a daily series of TrendLengths days, the days before the last 14
\* (if any) all low or all high
DailyArgument ==
    \E n \in TrendLengths, ls \in LevelsAndSteps :
        \E up \in [1..(IF n < 14 THEN n ELSE 14) -> {0, 1}] :
            \E old \in (IF n > 14 THEN {0, 1} ELSE {0}) :
                arg = [kind |-> "daily", value |-> TwoLevels(n, ls, up, old)]

\* the costs of the services of an argument: up to MaxValue, and the 90 of a service
\* that dominates the others
ServiceCosts ==
    (0..MaxValue) \cup {90}

\* the argument is a list of up to MaxLen services named A, B, .. in descending order
\* of cost, as _fetch_service_costs returns them
ServicesArgument ==
    \E n \in 0..MaxLen :
        \E c \in [1..n -> ServiceCosts] :
            /\ \A i \in 1..(n - 1) : c[i] >= c[i + 1]
            /\ arg = [kind |-> "services",
                      value |-> [i \in 1..n |-> [service |-> <<UpperCase[i]>>, cost |-> c[i]]]]

\* the k-th day from FirstDay on, or the k-th that is not a Saturday or a Sunday
NthDay(k, weekdays_only) ==
    IF ~weekdays_only THEN FirstDay + k - 1
    ELSE CHOOSE d \in FirstDay..(FirstDay + 2 * k + 1) :
            /\ Weekday(d) < 5
            /\ Cardinality({ x \in FirstDay..d : Weekday(x) < 5 }) = k

\* the argument is a daily series of MaxDays - 1 or MaxDays points in chronological
\* order, every day or the weekdays only (the provider may omit days), with one
\* cost on weekdays, one on weekends, and the first point higher by a bump
DatedArgument ==
    \E n \in (MaxDays - 1)..MaxDays, weekdays_only \in BOOLEAN :
        \E wd \in {0, 5, 6, 10}, we \in {0, 6, 10}, bump \in {0, 1, 4} :
            arg = [kind |-> "dated",
                   value |-> [i \in 1..n |->
                       LET d == NthDay(i, weekdays_only)
                       IN  [date |-> d,
                            cost |-> (IF Weekday(d) < 5 THEN wd ELSE we)
                                     + (IF i = 1 THEN bump ELSE 0)]]]

\* the argument is one service with its cost over the window and its daily series of
\* 6, 7 or MaxDays points: one amount a day, the first day higher by a bump.  The two
\* come from two queries, and the series need not add up to the cost.
IdleArgument ==
    \E cost \in {0, 1, 14, 15, 16, 28, 30, 49, 50}, n \in {6, 7, MaxDays} :
        \E level \in 0..2, bump \in 0..1 :
            arg = [kind |-> "idle",
                   value |-> [services  |-> << [service |-> SvcLambda, cost |-> cost] >>,
                              daily_svc |->
                                  [dates    |-> Dates(n),
                                   services |-> << SvcLambda >>,
                                   data     |-> [s \in {SvcLambda} |->
                                       [i \in 1..n |-> level + (IF i = 1 THEN bump ELSE 0)]]]]]

\* the costs of the regions of an argument: around the cost of 5, and pairs that make
\* shares of exactly 15% (15 of 100) and exactly 1% (6 of 600)
RegionCosts ==
    {0, 5, 6, 7, 15, 85, 93, 100, 594}

\* regions named A, B, .. with these costs
RegionsOf(c) ==
    [i \in 1..Len(c) |-> [region |-> <<UpperCase[i]>>, cost |-> c[i]]]

\* the argument is a list of up to MaxLen regions in descending order of cost, as
\* _fetch_region_costs returns them, or a list of 7 or 8 regions of one cost each
\* (with 7 or more regions the share of the first one can be under 15%)
RegionsArgument ==
    \/ \E n \in 0..MaxLen :
           \E c \in [1..n -> RegionCosts] :
               /\ \A i \in 1..(n - 1) : c[i] >= c[i + 1]
               /\ arg = [kind |-> "regions", value |-> RegionsOf(c)]
    \/ \E n \in 7..8, each \in {5, 6, 15} :
           arg = [kind |-> "regions", value |-> RegionsOf([i \in 1..n |-> each])]

InitDirect ==
    /\ provider = EmptyProvider
    /\ failing = {}
    /\ faulty = {}
    /\ NoSequential
    /\ NoConcurrent
    /\ NoAccounts
    /\ fn = ""
    /\ \/ SeriesArgument
       \/ DailyArgument
       \/ ServicesArgument
       \/ DatedArgument
       \/ IdleArgument
       \/ RegionsArgument
    /\ ret = << >>

call_linear_regression ==
    /\ fn = ""
    /\ arg.kind = "series"
    /\ fn' = "_linear_regression"
    /\ ret' = linear_regression(arg.value)
    /\ UNCHANGED << env, accounts, sequential, concurrent, arg >>

\* the values arrive as floats
call_z_scores ==
    /\ fn = ""
    /\ arg.kind = "series"
    /\ fn' = "_z_scores"
    /\ ret' = z_scores_float([i \in 1..Len(arg.value) |-> FlFromInt(arg.value[i])])
    /\ UNCHANGED << env, accounts, sequential, concurrent, arg >>

call_hhi ==
    /\ fn = ""
    /\ arg.kind = "series"
    /\ fn' = "_hhi"
    /\ ret' = hhi(arg.value)
    /\ UNCHANGED << env, accounts, sequential, concurrent, arg >>

call_analyse_cost_trend ==
    /\ fn = ""
    /\ arg.kind = "daily"
    /\ fn' = "_analyse_cost_trend"
    /\ ret' = analyse_cost_trend(arg.value)
    /\ UNCHANGED << env, accounts, sequential, concurrent, arg >>

call_analyse_service_concentration ==
    /\ fn = ""
    /\ arg.kind = "services"
    /\ fn' = "_analyse_service_concentration"
    /\ ret' = analyse_service_concentration(arg.value)
    /\ UNCHANGED << env, accounts, sequential, concurrent, arg >>

call_analyse_scheduling_opportunities ==
    /\ fn = ""
    /\ arg.kind = "dated"
    /\ fn' = "_analyse_scheduling_opportunities"
    /\ ret' = analyse_scheduling_opportunities(arg.value)
    /\ UNCHANGED << env, accounts, sequential, concurrent, arg >>

call_analyse_idle_services ==
    /\ fn = ""
    /\ arg.kind = "idle"
    /\ fn' = "_analyse_idle_services"
    /\ ret' = analyse_idle_services(arg.value.services, arg.value.daily_svc)
    /\ UNCHANGED << env, accounts, sequential, concurrent, arg >>

call_analyse_region_waste ==
    /\ fn = ""
    /\ arg.kind = "regions"
    /\ fn' = "_analyse_region_waste"
    /\ ret' = analyse_region_waste(arg.value)
    /\ UNCHANGED << env, accounts, sequential, concurrent, arg >>

NextDirect ==
    \/ call_linear_regression
    \/ call_z_scores
    \/ call_hhi
    \/ call_analyse_cost_trend
    \/ call_analyse_service_concentration
    \/ call_analyse_scheduling_opportunities
    \/ call_analyse_idle_services
    \/ call_analyse_region_waste

SpecDirect ==
    InitDirect /\ [][NextDirect]_vars

IsConstant(s) ==
    \A i, j \in 1..Len(s) : s[i] = s[j]

\* s[i + 1] - s[i] = d throughout
IsProgression(s, d) ==
    \A i \in 1..(Len(s) - 1) : s[i + 1] - s[i] = d

\* C13: _linear_regression returns (0, 0) for every series of fewer than 3 values,
\* and slope 0, r_squared 0 for a constant series of 3 or more; no returned
\* quotient has a zero denominator (no division error).
C13_RegressionDegenerate ==
    fn = "_linear_regression" =>
        /\ ret.slope[2] # 0 /\ ret.r_sq[2] # 0
        /\ (Len(arg.value) < 3 \/ IsConstant(arg.value))
              => ret.slope[1] = 0 /\ ret.r_sq[1] = 0

\* the helper was called on a constant series of 3 or more non-zero values
C13_Witness ==
    /\ fn = "_linear_regression"
    /\ Len(arg.value) >= 3
    /\ IsConstant(arg.value)
    /\ arg.value[1] > 0
    /\ ret.slope[1] = 0

\* C14: for a series of 3 or more values in arithmetic progression of difference
\* d # 0, _linear_regression returns slope = d and r_squared = 1.
C14_RegressionPerfectLine ==
    fn = "_linear_regression" =>
        \A d \in (-MaxValue..MaxValue) \ {0} :
            (Len(arg.value) >= 3 /\ IsProgression(arg.value, d))
                => /\ ret.slope[1] = d * ret.slope[2]
                   /\ ret.r_sq[1] = ret.r_sq[2]
                   /\ ret.r_sq[2] # 0

\* the helper was called on a falling progression of 5 values
C14_Witness ==
    /\ fn = "_linear_regression"
    /\ Len(arg.value) = 5
    /\ IsProgression(arg.value, -2)
    /\ ret.slope[1] = (-2) * ret.slope[2]
    /\ ret.r_sq[1] = ret.r_sq[2]

\* the number of positive values
Positives(s) ==
    Cardinality({ i \in 1..Len(s) : s[i] > 0 })

\* C15: for non-negative values _hhi is in [0, 10000]; it is 0 for an all-zero or
\* empty input, 10000 when exactly one value is positive, and 10000 / k for k equal
\* positive values.
C15_HhiRangeAndValues ==
    fn = "_hhi" =>
        /\ ret[2] > 0
        /\ 0 <= ret[1] /\ ret[1] <= 10000 * ret[2]
        /\ Positives(arg.value) = 0 => ret[1] = 0
        /\ Positives(arg.value) = 1 => ret[1] = 10000 * ret[2]
        /\ (arg.value # << >> /\ IsConstant(arg.value) /\ arg.value[1] > 0)
              => Len(arg.value) * ret[1] = 10000 * ret[2]

\* _hhi was called on four equal positive values and returned 2500
C15_Witness ==
    /\ fn = "_hhi"
    /\ Len(arg.value) = 4
    /\ IsConstant(arg.value)
    /\ arg.value[1] > 0
    /\ ret[1] = 2500 * ret[2]

\* C16 (as claimed): _z_scores returns as many values as it is given, all of them
\* zero when it is given fewer than 3 values or a constant series.
C16_ZScoresDegenerate ==
    fn = "_z_scores" =>
        /\ Len(ret) = Len(arg.value)
        /\ (Len(arg.value) < 3 \/ IsConstant(arg.value))
              => \A i \in 1..Len(ret) : ret[i].m = 0

\* how many of the opportunities have this id
CountOf(opps, id) ==
    Cardinality({ i \in 1..Len(opps) : opps[i].id[1] = id })

\* sum(costs[-7:]) and sum(costs[-14:-7]) of a series of 14 or more
RecentWeek(costs) ==
    SumSeq(SubSeq(costs, Len(costs) - 6, Len(costs)))

PriorWeek(costs) ==
    SumSeq(SubSeq(costs, Len(costs) - 13, Len(costs) - 7))

\* C17: on 14 or more daily points the trend analyser emits trend-002 exactly when
\* prior > 0 and (recent - prior) / prior * 100 > 15, whatever the regression branch
\* did; its priority is critical exactly when the change is over 40% and high
\* otherwise; on fewer than 14 points nothing is emitted.
C17_WeekOverWeek ==
    fn = "_analyse_cost_trend" =>
        LET costs == Costs(arg.value)
        IN  IF Len(costs) < 14 THEN ret = << >>
            ELSE LET recent == RecentWeek(costs)
                     prior  == PriorWeek(costs)
                     fires  == prior > 0 /\ 100 * (recent - prior) > 15 * prior
                 IN  /\ CountOf(ret, "trend-002") = (IF fires THEN 1 ELSE 0)
                     /\ \A i \in 1..Len(ret) :
                           ret[i].id[1] = "trend-002" =>
                               ret[i].priority =
                                   IF 100 * (recent - prior) > 40 * prior
                                   THEN "critical" ELSE "high"

\* the regression branch fired and the last week is exactly 40% over the week before
C17_Witness ==
    /\ fn = "_analyse_cost_trend"
    /\ Len(arg.value) >= 14
    /\ PriorWeek(Costs(arg.value)) > 0
    /\ 100 * (RecentWeek(Costs(arg.value)) - PriorWeek(Costs(arg.value)))
           = 40 * PriorWeek(Costs(arg.value))
    /\ Len(ret) = 2
    /\ ret[1].id[1] = "trend-001"
    /\ ret[2].id[1] = "trend-002"
    /\ ret[2].priority = "high"

\* C18: on 14 or more daily points the trend analyser emits trend-001 exactly when
\* slope > 0, r_squared > 0.3, mean > 0 and slope * 30 / mean * 100 > 5; its
\* priority is critical exactly when that percentage is over 20 and high otherwise;
\* its estimated_savings (in cents) is within half a cent of 0.4 * slope * 30.
C18_RegressionTrend ==
    fn = "_analyse_cost_trend" =>
        LET costs == Costs(arg.value)
            n     == Len(costs)
            Sy    == SumSeq(costs)
            slope == linear_regression(costs).slope
            r_sq  == linear_regression(costs).r_sq
            \* slope * 30 / (Sy / n) * 100 > k, for slope[2] > 0 and Sy > 0
            Over(k) == 3000 * n * slope[1] > k * slope[2] * Sy
            fires == /\ n >= 14
                     /\ slope[1] > 0
                     /\ 10 * r_sq[1] > 3 * r_sq[2]
                     /\ Sy > 0
                     /\ Over(5)
        IN  /\ CountOf(ret, "trend-001") = (IF fires THEN 1 ELSE 0)
            /\ \A i \in 1..Len(ret) :
                  ret[i].id[1] = "trend-001" =>
                      /\ ret[i].priority = (IF Over(20) THEN "critical" ELSE "high")
                      /\ 2 * ret[i].estimated_savings * slope[2] - 2400 * slope[1]
                             <= slope[2]
                      /\ 2400 * slope[1] - 2 * ret[i].estimated_savings * slope[2]
                             <= slope[2]

\* a rising series of 15 days whose projected increase is between 5% and 20%
C18_Witness ==
    /\ fn = "_analyse_cost_trend"
    /\ Len(arg.value) = 15
    /\ Len(ret) = 1
    /\ ret[1].id[1] = "trend-001"
    /\ ret[1].priority = "high"
    /\ ret[1].estimated_savings > 0

\* how many of the services have a positive cost
PositiveCount(svcs) ==
    Cardinality({ i \in 1..Len(svcs) : svcs[i].cost > 0 })

\* C19: the concentration analyser emits nothing unless at least two of the services
\* have a positive cost.
C19_NeedsTwoPositive ==
    (fn = "_analyse_service_concentration" /\ PositiveCount(arg.value) < 2)
        => ret = << >>

\* sum of the squares
SumSquares(s) ==
    SumSeq([i \in 1..Len(s) |-> s[i] * s[i]])

\* the thresholds of the concentration analyser on services of costs >= 0 in
\* descending order: HHI = 10000 * sum(c^2) / sum(c)^2 > 2500, top share > 60%
ConcentrationThresholds(svcs, opps) ==
    LET costs == Costs(svcs)
        sum   == SumSeq(costs)
    IN  IF sum > 0 /\ 4 * SumSquares(costs) > sum * sum
        THEN /\ Len(opps) = 1
             /\ opps[1].id = <<"conc-001", << >> >>
             /\ opps[1].priority =
                    (IF 100 * svcs[1].cost > 60 * sum THEN "high" ELSE "medium")
             /\ opps[1].estimated_savings = 15 * svcs[1].cost
        ELSE opps = << >>

\* C20: given two or more services sorted by cost descending, the concentration
\* analyser emits exactly one opportunity when the HHI over the cost shares is
\* strictly greater than 2500 and none otherwise; its priority is high exactly when
\* the share of the first service exceeds 60% and medium otherwise, and its
\* estimated_savings (in cents) is 0.15 times the cost of the first service.
C20_ConcentrationThresholds ==
    (fn = "_analyse_service_concentration" /\ Len(arg.value) >= 2)
        => ConcentrationThresholds(arg.value, ret)

\* C20 as stated, for a list of services of any length
C20_AnyLength ==
    fn = "_analyse_service_concentration"
        => ConcentrationThresholds(arg.value, ret)

\* services A = 90, B = 5, C = 5 give priority high and savings 13.50
C20_Witness ==
    /\ fn = "_analyse_service_concentration"
    /\ Costs(arg.value) = <<90, 5, 5>>
    /\ Len(ret) = 1
    /\ ret[1].priority = "high"
    /\ ret[1].estimated_savings = 1350

\* the costs of the points of a daily series that fall on a Monday to Friday
WeekdayCosts(ds) ==
    LET IsWeekday(d) == Weekday(d.date) < 5
    IN  Costs(SelectSeq(ds, IsWeekday))

\* the average of the costs is over 5 and their coefficient of variation (population
\* standard deviation / mean) under 0.15: n * sum(c^2) - sum(c)^2 < 0.0225 * sum(c)^2
FlatSpend(costs) ==
    LET n == Len(costs)
        S == SumSeq(costs)
    IN  /\ n > 0
        /\ S > 5 * n
        /\ 400 * (n * SumSquares(costs) - S * S) < 9 * S * S

\* C21: on 14 or more daily points the scheduling analyser emits sched-002 whenever
\* the weekday average is over 5 and the weekday coefficient of variation is under
\* 0.15, also when the series has no weekend day.
C21_FlatSpendIndependent ==
    (/\ fn = "_analyse_scheduling_opportunities"
     /\ Len(arg.value) >= 14
     /\ FlatSpend(WeekdayCosts(arg.value)))
        => CountOf(ret, "sched-002") = 1

\* with a weekend day among the 14 or more points the flat-spend branch is as C21 says
FlatSpendBesideWeekend ==
    (/\ fn = "_analyse_scheduling_opportunities"
     /\ Len(arg.value) >= 14
     /\ Len(WeekdayCosts(arg.value)) < Len(arg.value))
        => CountOf(ret, "sched-002") = (IF FlatSpend(WeekdayCosts(arg.value)) THEN 1 ELSE 0)

\* the population standard deviation of the series, taken from its own mean, is
\* under 0.5 * (cost / 30): (n * sum(d^2) - sum(d)^2) / n^2 < (cost / 60)^2
DispersionUnder(series, cost) ==
    LET n == Len(series)
        S == SumSeq(series)
    IN  3600 * (n * SumSquares(series) - S * S) < n * n * cost * cost

\* C22: for a service with 0.5 < cost < 50 and 7 or more daily points the idle
\* analyser emits an opportunity exactly when the population standard deviation of
\* its daily series is under 0.5 * (cost / 30) and cost / 30 > 0.01, whether or not
\* the daily values add up to the cost.
C22_IdleDispersion ==
    fn = "_analyse_idle_services" =>
        LET item   == arg.value.services[1]
            series == DataGet(arg.value.daily_svc, item.service)
        IN  (2 * item.cost > 1 /\ item.cost < 50 /\ Len(series) >= 7)
                => (ret # << >>
                        <=> (DispersionUnder(series, item.cost) /\ 100 * item.cost > 30))

\* when the daily values add up to the cost, the measure is the standard deviation
IdleDispersionOfMatchingSeries ==
    fn = "_analyse_idle_services" =>
        LET item   == arg.value.services[1]
            series == DataGet(arg.value.daily_svc, item.service)
        IN  (2 * item.cost > 1 /\ item.cost < 50 /\ Len(series) >= 7
                 /\ SumSeq(series) = item.cost)
                => (ret # << >>
                        <=> (DispersionUnder(series, item.cost) /\ 100 * item.cost > 30))

\* the opportunities of the idle analyser among these
IdleIn(opps) ==
    LET IsIdle(o) == o.id[1] = "idle-"
    IN  SelectSeq(opps, IsIdle)

\* the opportunity of every service of the account that qualifies as idle, in the
\* order of the service list
QualifyingIdle ==
    LET svcs == ServiceCostsOf(provider)
        dsvc == DailyServiceCostsOf(provider, 8)
    IN  Concat([i \in 1..Len(svcs) |-> IdleOf(svcs[i], dsvc)])

\* C23: the idle analyser returns at most 5 opportunities, those of the first five
\* qualifying services in the order of the service list, and what falls to the cap
\* is not in the returned list of generate_opportunities either, also when
\* de-duplication drops one of the five.
C23_IdleCap ==
    /\ pc = "monthly_growth" =>
          LET idle == IdleIn(opportunities)
              all  == QualifyingIdle
          IN  /\ Len(idle) <= 5
              /\ IsPrefix(idle, all)
              /\ Len(idle) < 5 => idle = all
    /\ pc = "returned" =>
          LET all == QualifyingIdle
          IN  \A i \in 1..Len(result) :
                  result[i].id[1] = "idle-" =>
                      \A k \in 6..Len(all) : result[i] # all[k]

\* seven services qualify, the first and the third of them under the same id: four
\* idle opportunities are returned
C23_Witness ==
    /\ pc = "returned"
    /\ failing = {}
    /\ faulty = {}
    /\ Len(QualifyingIdle) = 7
    /\ QualifyingIdle[1].id = QualifyingIdle[3].id
    /\ Len(IdleIn(result)) = 4

C25_DistinctIds ==
    (pc = "returned" /\ failing = {} /\ faulty = {})
        => /\ Range(ProducedBy("service_spikes")) \subseteq Range(result)
           /\ Range(ProducedBy("idle_services")) \subseteq Range(result)

\* the coverage records of the account with coverage < 60 and on_demand_cost > 50
QualifyingCoverage ==
    LET Qualifies(c) == c.pct < 60 /\ c.on_demand > 50
    IN  SelectSeq(provider.coverage, Qualifies)

\* C26: however many coverage records qualify, the list generate_opportunities
\* returns has at most one opportunity sp-001, and it is the one built from the
\* first qualifying record in the order of the response, also when a later record
\* has larger savings.
C26_OneCommitment ==
    pc = "returned" =>
        /\ CountOf(result, "sp-001") <= 1
        /\ (failing = {} /\ faulty = {}) =>
              /\ CountOf(result, "sp-001") = (IF QualifyingCoverage # << >> THEN 1 ELSE 0)
              /\ \A i \in 1..Len(result) :
                    result[i].id[1] = "sp-001" =>
                        /\ result[i].estimated_savings = 25 * QualifyingCoverage[1].on_demand
                        /\ result[i].priority =
                               (IF QualifyingCoverage[1].pct < 30 THEN "critical" ELSE "high")

\* three records, the second and the third of which qualify, the third with the
\* larger savings
C26_Witness ==
    /\ pc = "returned"
    /\ failing = {}
    /\ faulty = {}
    /\ Len(provider.coverage) = 3
    /\ provider.coverage[1].pct = 70
    /\ Len(QualifyingCoverage) = 2
    /\ QualifyingCoverage[1].on_demand < QualifyingCoverage[2].on_demand
    /\ CountOf(result, "sp-001") = 1

\* what the analysers that complete before the first failure find, in call order
CompletedBeforeFailure ==
    IF \E q \in Fetches : CallRaises(q) THEN << >>
    ELSE Concat([a \in 1..(FirstFaulty - 1) |-> ProducedBy(Analyzers[a])])

\* C27: the list generate_opportunities returns holds at most one err-001; when it
\* is there it is the last element, and the elements before it are the
\* opportunities, one per id, of the analysers that completed before the failure.
C27_ErrorMarkerLast ==
    pc = "returned" =>
        /\ CountOf(result, "err-001") <= 1
        /\ CountOf(result, "err-001") = 1 =>
              LET front     == SubSeq(result, 1, Len(result) - 1)
                  completed == CompletedBeforeFailure
              IN  /\ result[Len(result)] = ErrOpportunity
                  /\ IdsOf(front) = IdsOf(completed)
                  /\ Len(front) = Cardinality(IdsOf(front))
                  /\ Range(front) \subseteq Range(completed)

\* an analyser raised after others had found something: the marker follows three or
\* more opportunities
C27_Witness ==
    /\ pc = "returned"
    /\ failing = {}
    /\ faulty # {}
    /\ Len(result) >= 4
    /\ result[Len(result)] = ErrOpportunity
    /\ Len(CompletedBeforeFailure) > Len(result) - 1

-----------------------------------------------------------------------------
(* The account manager: data/accounts.json and the calls that rewrite it *)

AwsIds ==
    1..MaxAwsIds

\* the check that prevents duplicates in add_account
IsRegistered(data, aws_account_id) ==
    \E i \in 1..Len(data) : data[i].aws_account_id = aws_account_id

\* the dict add_account builds: the first account is the active one; id stands for
\* str(uuid.uuid4())[:8], a value no other account has
NewAccount(data, id, aws_account_id) ==
    [id |-> id, aws_account_id |-> aws_account_id, name |-> "name",
     connected |-> FALSE, is_active |-> Len(data) = 0]

\* account["status"] = "connected" if ok else "error"
Tested(account, ok) ==
    [account EXCEPT !.connected = ok]

Found(data, account_id) ==
    \E i \in 1..Len(data) : data[i].id = account_id

\* the loop of set_active_account
SetActive(data, account_id) ==
    [i \in 1..Len(data) |-> [data[i] EXCEPT !.is_active = (data[i].id = account_id)]]

\* the loop of update_account, for a new name
Updated(data, account_id, name) ==
    [i \in 1..Len(data) |->
        IF data[i].id = account_id THEN [data[i] EXCEPT !.name = name] ELSE data[i]]

\* variant: the account is removed and the others are left as they are
DeletedOnly(data, account_id) ==
    LET Other(a) == a.id # account_id
    IN  SelectSeq(data, Other)

\* what delete_account leaves: if the active account was deleted, the first
\* remaining one is activated
Deleted(data, account_id) ==
    LET Other(a) == a.id # account_id
        rest == SelectSeq(data, Other)
    IN  IF rest # << >> /\ ~\E i \in 1..Len(rest) : rest[i].is_active
        THEN [rest EXCEPT ![1].is_active = TRUE]
        ELSE rest

\* get_active_account: the id of the first account with is_active, else of the
\* first connected one, else 0 for None (get_session then falls back to the
\* default credentials)
get_active_account(data) ==
    IF \E i \in 1..Len(data) : data[i].is_active
    THEN data[CHOOSE i \in 1..Len(data) :
                 data[i].is_active /\ \A j \in 1..(i - 1) : ~data[j].is_active].id
    ELSE IF \E i \in 1..Len(data) : data[i].connected
    THEN data[CHOOSE i \in 1..Len(data) :
                 data[i].connected /\ \A j \in 1..(i - 1) : ~data[j].connected].id
    ELSE 0

Called(op, a, r) ==
    call' = [op |-> op, arg |-> a, ret |-> r, before |-> store, n |-> call.n + 1]

\* add_account, from _load_accounts to _save_accounts
add_account ==
    /\ call.n < MaxCalls
    /\ \E aws_account_id \in AwsIds, ok \in BOOLEAN :
          IF IsRegistered(store, aws_account_id)
          THEN /\ Called("add_account", aws_account_id, 0)
               /\ UNCHANGED << store, nextId >>
          ELSE /\ store' = Append(store, Tested(NewAccount(store, nextId, aws_account_id), ok))
               /\ nextId' = nextId + 1
               /\ Called("add_account", aws_account_id, nextId)
    /\ UNCHANGED << env, sequential, concurrent, direct, procs >>

\* set_active_account: the file is written only if the id was found
set_active_account ==
    /\ call.n < MaxCalls
    /\ \E account_id \in 1..nextId :
          /\ Called("set_active_account", account_id, Found(store, account_id))
          /\ store' = IF Found(store, account_id) THEN SetActive(store, account_id) ELSE store
    /\ UNCHANGED << env, sequential, concurrent, direct, procs, nextId >>

update_account ==
    /\ call.n < MaxCalls
    /\ \E account_id \in 1..nextId :
          /\ Called("update_account", account_id, Found(store, account_id))
          /\ store' = Updated(store, account_id, "renamed")
    /\ UNCHANGED << env, sequential, concurrent, direct, procs, nextId >>

delete_account ==
    /\ call.n < MaxCalls
    /\ \E account_id \in 1..nextId :
          /\ Called("delete_account", account_id, Found(store, account_id))
          /\ store' = Deleted(store, account_id)
    /\ UNCHANGED << env, sequential, concurrent, direct, procs, nextId >>

InitAccounts ==
    /\ provider = EmptyProvider
    /\ failing = {}
    /\ faulty = {}
    /\ NoSequential
    /\ NoConcurrent
    /\ NoDirect
    /\ NoAccounts

NextAccounts ==
    \/ add_account
    \/ set_active_account
    \/ update_account
    \/ delete_account

SpecAccounts ==
    InitAccounts /\ [][NextAccounts]_vars

ActiveIn(data) ==
    { i \in 1..Len(data) : data[i].is_active }

\* C29: after any sequence of add_account, set_active_account, update_account and
\* delete_account calls, one after another, the store has exactly one active
\* account whenever it is not empty: the first account added is active, deleting
\* the active account activates the first remaining one, and set_active_account
\* with an unknown id returns False and leaves the store as it was.
C29_ExactlyOneActive ==
    /\ store # << >> => Cardinality(ActiveIn(store)) = 1
    /\ (call.op = "add_account" /\ call.before = << >>) => store[1].is_active
    /\ (/\ call.op = "delete_account"
        /\ \E i \in ActiveIn(call.before) : call.before[i].id = call.arg
        /\ store # << >>)
           => ActiveIn(store) = {1}
    /\ (call.op = "set_active_account" /\ ~Found(call.before, call.arg))
           => (call.ret = FALSE /\ store = call.before)

\* the active account, the second of three, was deleted: the first one is active now
C29_Witness ==
    /\ call.op = "delete_account"
    /\ Len(call.before) = 3
    /\ call.before[2].is_active
    /\ call.before[2].id = call.arg
    /\ Len(store) = 2
    /\ store[1].is_active
    /\ ~store[2].is_active

-----------------------------------------------------------------------------
(* Requests served at the same time by the gunicorn workers, one request each *)

\* a worker after a step of its request
Step(w, fields) ==
    procs' = [procs EXCEPT ![w] = fields @@ procs[w]]

\* add_account up to the account dict: _load_accounts, the duplicate check, the uuid
load_for_add(w) ==
    /\ procs[w].pc = "idle"
    /\ \E aws_account_id \in AwsIds :
          IF IsRegistered(store, aws_account_id)
          THEN /\ Step(w, [op |-> "add_account", pc |-> "done", arg |-> aws_account_id,
                           data |-> store, ret |-> 0])
               /\ UNCHANGED nextId
          ELSE /\ Step(w, [op |-> "add_account", pc |-> "test", arg |-> aws_account_id,
                           data |-> store,
                           account |-> NewAccount(store, nextId, aws_account_id)])
               /\ nextId' = nextId + 1
    /\ UNCHANGED << env, sequential, concurrent, direct, store, call >>

\* add_account from test_connection on: the account is appended to the list this
\* worker loaded, and the list is written
save_added(w) ==
    /\ procs[w].pc = "test"
    /\ \E ok \in BOOLEAN :
          store' = Append(procs[w].data, Tested(procs[w].account, ok))
    /\ Step(w, [pc |-> "done", ret |-> procs[w].account.id])
    /\ UNCHANGED << env, sequential, concurrent, direct, call, nextId >>

\* set_active_account up to 'if found'
load_for_switch(w) ==
    /\ procs[w].pc = "idle"
    /\ \E account_id \in 1..nextId :
          IF Found(store, account_id)
          THEN Step(w, [op |-> "set_active_account", pc |-> "switch", arg |-> account_id,
                        data |-> SetActive(store, account_id)])
          ELSE Step(w, [op |-> "set_active_account", pc |-> "done", arg |-> account_id,
                        data |-> store, ret |-> 0])
    /\ UNCHANGED << env, sequential, concurrent, direct, store, call, nextId >>

\* _save_accounts(data) of set_active_account
save_switched(w) ==
    /\ procs[w].pc = "switch"
    /\ store' = procs[w].data
    /\ Step(w, [pc |-> "done", ret |-> 1])
    /\ UNCHANGED << env, sequential, concurrent, direct, call, nextId >>

\* delete_account up to the test of the length
load_for_delete(w) ==
    /\ procs[w].pc = "idle"
    /\ \E account_id \in 1..nextId :
          IF Found(store, account_id)
          THEN Step(w, [op |-> "delete_account", pc |-> "delete", arg |-> account_id,
                        data |-> Deleted(store, account_id)])
          ELSE Step(w, [op |-> "delete_account", pc |-> "done", arg |-> account_id,
                        data |-> store, ret |-> 0])
    /\ UNCHANGED << env, sequential, concurrent, direct, store, call, nextId >>

\* _save_accounts(data) of delete_account
save_deleted(w) ==
    /\ procs[w].pc = "delete"
    /\ store' = procs[w].data
    /\ Step(w, [pc |-> "done", ret |-> 1])
    /\ UNCHANGED << env, sequential, concurrent, direct, call, nextId >>

\* one provider query of generate_opportunities: self.ce builds a client on
\* get_session(), which reads the active account from the file at that moment
query(w) ==
    /\ procs[w].pc = "idle" \/ procs[w].pc = "query"
    /\ LET used == Append(procs[w].used, get_active_account(store))
       IN  Step(w, [op |-> "generate_opportunities",
                    pc |-> IF Len(used) = Cardinality(Queries) THEN "done" ELSE "query",
                    used |-> used])
    /\ UNCHANGED << env, sequential, concurrent, direct, store, call, nextId >>

\* an account registered through account id `id` for AWS account `id`
Registered(id, active) ==
    [id |-> id, aws_account_id |-> id, name |-> "name", connected |-> TRUE,
     is_active |-> active]

\* the stores the workers start from: empty, or left by earlier calls
InitialStores ==
    { << >>,
      << Registered(1, TRUE) >>,
      << Registered(1, TRUE), Registered(2, FALSE) >>,
      << Registered(1, FALSE), Registered(2, TRUE) >> }

InitWorkers ==
    /\ provider = EmptyProvider
    /\ failing = {}
    /\ faulty = {}
    /\ NoSequential
    /\ NoConcurrent
    /\ NoDirect
    /\ store \in InitialStores
    /\ call = NoCall
    /\ procs = [w \in Workers |-> IdleProc]
    /\ nextId = Len(store) + 1

NextWorkers ==
    \/ \E w \in Workers : load_for_add(w)
    \/ \E w \in Workers : save_added(w)
    \/ \E w \in Workers : load_for_switch(w)
    \/ \E w \in Workers : save_switched(w)
    \/ \E w \in Workers : load_for_delete(w)
    \/ \E w \in Workers : save_deleted(w)
    \/ \E w \in Workers : query(w)

SpecWorkers ==
    InitWorkers /\ [][NextWorkers]_vars

\* C28: all the provider queries of one invocation of generate_opportunities are
\* issued against the same account, also when another request switches or deletes
\* the active account meanwhile.
C28_SingleAccount ==
    \A w \in Workers :
        procs[w].op = "generate_opportunities" =>
            \A i, j \in 1..Len(procs[w].used) : procs[w].used[i] = procs[w].used[j]

\* C30: when add_account calls overlap across the workers, every account whose
\* call returned success is in the store once all calls have finished, and no two
\* stored accounts have the same aws_account_id.
C30_NoLostRegistration ==
    (/\ \A w \in Workers : procs[w].pc \in {"idle", "done"}
     /\ \A w \in Workers : procs[w].op \in {"", "add_account"})
        => /\ \A w \in Workers :
                 (procs[w].op = "add_account" /\ procs[w].ret # 0)
                     => Found(store, procs[w].ret)
           /\ \A i, j \in 1..Len(store) :
                 store[i].aws_account_id = store[j].aws_account_id => i = j

\* overlapping add_account calls never store an AWS account twice
NoDuplicateRegistration ==
    (\A w \in Workers : procs[w].op \in {"", "add_account"})
        => \A i, j \in 1..Len(store) :
              store[i].aws_account_id = store[j].aws_account_id => i = j

====
